---- MODULE Spec2Model ----
(***************************************************************************)
(* followthemoney (Go port): EntityProxy value writes, statement           *)
(* decomposition and keys, statement codecs, and batch / streaming         *)
(* aggregation of statements back into entities.                           *)
(*                                                                         *)
(* Strings.  Identifiers, property names, schema names and provenance      *)
(* fields are atomic strings; Bytes gives the byte sequence of each one.   *)
(* Property values are byte sequences (one 1-character string per byte),   *)
(* so that cleaning, lengths and key joining are computed on the bytes.    *)
(***************************************************************************)
EXTENDS Integers, Sequences, FiniteSets, TLC

VARIABLES
    heap,       \* allocated EntityProxy objects; a reference is an index, 0 is nil
    cur,        \* StatementAggregator.cur (reference)
    key,        \* StatementAggregator.key
    hist,       \* statements passed to StatementAggregator.Add so far, in call order
    out,        \* references returned non-nil by Add / Flush, in call order
    flushed,    \* Flush has been called (as the last call)
    batchOut,   \* [ran, ents]: the entities AggregateSortedStatements(hist) returned
    ent,        \* a caller-owned EntityProxy
    last,       \* the last call on ent (or se): its name, property and error
    stmts,      \* a caller-owned []Statement
    wire,       \* [codec, recs]: the records a codec's writer encoded
    back,       \* statements delivered by a codec's reader, in delivery order
    model,      \* a Model being built from schema specifications
    se,         \* a caller-owned StatementEntity
    graph       \* a caller-owned Graph

vars ==
    <<heap, cur, key, hist, out, flushed, batchOut, ent, last, stmts, wire, back,
      model, se, graph>>

aggVars   == <<heap, cur, key, hist, out, flushed, batchOut>>
proxyVars == <<ent, last>>
codecVars == <<stmts, wire, back>>
modelVars == <<model, se, graph>>

Nil    == [nil |-> TRUE]
NotRun == [ran |-> FALSE, ents |-> <<>>]
NoWire == [codec |-> "none", recs |-> <<>>, given |-> <<>>]
NoCall == [op |-> "none"]
NoModel == [phase |-> "none"]

-----------------------------------------------------------------------------
(* Bytes and text helpers                                                  *)

SP    == " "
TAB   == "\t"
QUOTE == "\""
CTRL  == "^A"      \* a control character that is not white space (U+0001)

IsSpace(c)   == c \in {SP, TAB}
IsControl(c) == c \in {TAB, CTRL}

\* strings.Trim(text, cutset): drop leading and trailing bytes that are in cutset
RECURSIVE TrimLeft(_, _)
TrimLeft(s, cutset) ==
    IF s # <<>> /\ Head(s) \in cutset THEN TrimLeft(Tail(s), cutset) ELSE s

RECURSIVE TrimRight(_, _)
TrimRight(s, cutset) ==
    IF s # <<>> /\ s[Len(s)] \in cutset
    THEN TrimRight(SubSeq(s, 1, Len(s) - 1), cutset)
    ELSE s

Trim(s, cutset) == TrimRight(TrimLeft(s, cutset), cutset)

TrimSpace(s) == Trim(s, {SP, TAB})

MaxSanitized == 10000

\* the loop of sanitizeText: control characters are dropped, a run of white
\* space becomes one space
RECURSIVE sanitizeLoop(_, _, _)
sanitizeLoop(s, i, lastSpace) ==
    IF i > Len(s) THEN <<>>
    ELSE LET r == s[i] IN
         IF IsControl(r) /\ ~IsSpace(r) THEN sanitizeLoop(s, i + 1, lastSpace)
         ELSE IF IsSpace(r)
              THEN IF lastSpace THEN sanitizeLoop(s, i + 1, TRUE)
                   ELSE <<SP>> \o sanitizeLoop(s, i + 1, TRUE)
              ELSE <<r>> \o sanitizeLoop(s, i + 1, FALSE)

\* the loop leaves a text without control characters and white space as it is
sanitizeScan(s) ==
    IF \A i \in DOMAIN s : ~IsControl(s[i]) /\ ~IsSpace(s[i]) THEN s
    ELSE sanitizeLoop(s, 1, FALSE)

sanitizeText(s) ==
    IF s = <<>> THEN [out |-> <<>>, ok |-> FALSE]
    ELSE LET t == TrimSpace(sanitizeScan(s)) IN
         IF t = <<>> THEN [out |-> <<>>, ok |-> FALSE]
         ELSE [out |-> IF Len(t) > MaxSanitized THEN SubSeq(t, 1, MaxSanitized) ELSE t,
               ok  |-> TRUE]

-----------------------------------------------------------------------------
(* Property types                                                          *)

NameCutset == {QUOTE, "'", SP}

TextTotalSize == 30 * 1024 * 1024

NameMaxLength == 512

TextMaxLength == 65000

\* PropertyType.MaxLength(): 0 = unlimited
MaxLength(t) ==
    IF t = "name" THEN NameMaxLength ELSE IF t = "text" THEN TextMaxLength ELSE 0

\* PropertyType.TotalSize(): 0 = unlimited
TotalSize(t) == IF t \in {"text", "html"} THEN TextTotalSize ELSE 0

\* PropertyType.Clean(text, fuzzy, format, proxy) of the types the fixture uses
Clean(t, text) ==
    IF t = "name" THEN sanitizeText(Trim(text, NameCutset))
    ELSE sanitizeText(text)

-----------------------------------------------------------------------------
(* The resolved Model the entities live in: Thing <- Person, Thing <-      *)
(* Company, and the reverse stub ownershipOwner that Ownership:owner puts  *)
(* on Person.                                                              *)

BaseID == "id"

Property(name, type, stub) == [Name |-> name, Type |-> type, Stub |-> stub]

Schemata ==
    [Thing  |-> [name  |-> Property("name", "name", FALSE)],
     Person |-> [name  |-> Property("name", "name", FALSE),
                 notes |-> Property("notes", "text", FALSE),
                 ownershipOwner |-> Property("ownershipOwner", "entity", TRUE)],
     Company |-> [name |-> Property("name", "name", FALSE)]]

SchemaNames == DOMAIN Schemata

\* Schema.Names of the schemas of the resolved Model
Ancestry ==
    [Thing |-> {"Thing"}, Person |-> {"Person", "Thing"}, Company |-> {"Company", "Thing"}]

NilSchema == "<nil>"

\* Model.Get: the schema (a schema is referred to by its name), or nil
ModelGet(name) == IF name \in SchemaNames THEN name ELSE NilSchema

\* Schema.Get: the property, or Nil
SchemaGet(schema, name) ==
    IF name \in DOMAIN Schemata[schema] THEN Schemata[schema][name] ELSE Nil

\* a *Schema of the resolved Model: its name and its Names, or Nil
SchemaRef(name) ==
    IF name \in SchemaNames THEN [Name |-> name, Names |-> Ancestry[name]] ELSE Nil

\* Schema.IsA
IsA(s, candidate) == candidate \in s.Names

\* CommonSchema returning the ancestor of the two in place of the descendant
CommonSchema_Ancestor(left, right) ==
    IF left = Nil \/ right = Nil THEN [schema |-> Nil, err |-> "invalid schema"]
    ELSE IF IsA(left, right.Name) THEN [schema |-> right, err |-> ""]
    ELSE IF IsA(right, left.Name) THEN [schema |-> left, err |-> ""]
    ELSE [schema |-> Nil, err |-> "no common schema"]

\* Model.CommonSchema: the schema and the error ("" = nil)
CommonSchema(left, right) ==
    IF left = Nil \/ right = Nil THEN [schema |-> Nil, err |-> "invalid schema"]
    ELSE IF IsA(left, right.Name) THEN [schema |-> left, err |-> ""]
    ELSE IF IsA(right, left.Name) THEN [schema |-> right, err |-> ""]
    ELSE [schema |-> Nil, err |-> "no common schema"]

-----------------------------------------------------------------------------
(* EntityProxy                                                             *)

EmptyProps == [n \in {} |-> <<>>]

NewEntityProxy(schema, id) ==
    [Schema |-> schema, ID |-> id, props |-> EmptyProps, size |-> 0]

\* e.props[name], nil (the empty list) when the key is absent
PropValues(e, name) == IF name \in DOMAIN e.props THEN e.props[name] ELSE <<>>

SetProp(e, name, xs) ==
    [e EXCEPT !.props = [n \in (DOMAIN e.props) \cup {name} |->
                            IF n = name THEN xs ELSE e.props[n]]]

DeleteProp(e, name) ==
    [e EXCEPT !.props = [n \in (DOMAIN e.props) \ {name} |-> e.props[n]]]

SeqToSet(xs) == {xs[i] : i \in DOMAIN xs}

Get(e, name) == IF SchemaGet(e.Schema, name) = Nil THEN <<>> ELSE PropValues(e, name)

Has(e, name) == name \in DOMAIN e.props

\* the loop of Add appending a value that is already held
RECURSIVE AddLoop_NoDedupe(_, _, _, _)
AddLoop_NoDedupe(e, p, values, i) ==
    IF i > Len(values) THEN e
    ELSE LET c   == Clean(p.Type, values[i])
             max == TotalSize(p.Type)
         IN  IF ~c.ok \/ c.out = <<>> THEN AddLoop_NoDedupe(e, p, values, i + 1)
             ELSE IF max > 0 /\ e.size + Len(c.out) > max
                  THEN AddLoop_NoDedupe(e, p, values, i + 1)
             ELSE AddLoop_NoDedupe([SetProp(e, p.Name, Append(PropValues(e, p.Name), c.out))
                                       EXCEPT !.size = @ + Len(c.out)],
                                   p, values, i + 1)

\* the loop of Add over the raw values: clean, skip what fails cleaning or is
\* empty, skip what would pass the type's total size, append what is new
RECURSIVE AddLoop(_, _, _, _)
AddLoop(e, p, values, i) ==
    IF i > Len(values) THEN e
    ELSE LET c   == Clean(p.Type, values[i])
             max == TotalSize(p.Type)
         IN  IF ~c.ok \/ c.out = <<>> THEN AddLoop(e, p, values, i + 1)
             ELSE IF max > 0 /\ e.size + Len(c.out) > max THEN AddLoop(e, p, values, i + 1)
             ELSE IF c.out \in SeqToSet(PropValues(e, p.Name)) THEN AddLoop(e, p, values, i + 1)
             ELSE AddLoop([SetProp(e, p.Name, Append(PropValues(e, p.Name), c.out))
                               EXCEPT !.size = @ + Len(c.out)],
                          p, values, i + 1)

\* Add without the refusal of stub properties
Add_WritesStub(e, name, values) ==
    LET p == SchemaGet(e.Schema, name) IN
    IF p = Nil THEN [e |-> e, err |-> "unknown property"]
    ELSE LET e0 == IF name \in DOMAIN e.props THEN e ELSE SetProp(e, name, <<>>)
         IN  [e |-> AddLoop(e0, p, values, 1), err |-> ""]

\* EntityProxy.Add: the proxy afterwards and the error ("" = nil)
Add(e, name, values) ==
    LET p == SchemaGet(e.Schema, name) IN
    IF p = Nil THEN [e |-> e, err |-> "unknown property"]
    ELSE IF p.Stub THEN [e |-> e, err |-> "stub property cannot be written"]
    ELSE LET e0 == IF name \in DOMAIN e.props THEN e ELSE SetProp(e, name, <<>>)
         IN  [e |-> AddLoop(e0, p, values, 1), err |-> ""]

\* EntityProxy.UnsafeAdd(p, value): the proxy afterwards, the value and ok
UnsafeAdd(e, p, value) ==
    LET c   == Clean(p.Type, value)
        max == TotalSize(p.Type)
    IN  IF ~c.ok \/ c.out = <<>> THEN [e |-> e, value |-> <<>>, ok |-> FALSE]
        ELSE IF p.Stub THEN [e |-> e, value |-> <<>>, ok |-> FALSE]
        ELSE LET e0 == IF p.Name \in DOMAIN e.props THEN e ELSE SetProp(e, p.Name, <<>>) IN
             IF c.out \in SeqToSet(PropValues(e0, p.Name))
             THEN [e |-> e0, value |-> c.out, ok |-> TRUE]
             ELSE IF max > 0 /\ e0.size + Len(c.out) > max
             THEN [e |-> e0, value |-> <<>>, ok |-> FALSE]
             ELSE [e |-> [SetProp(e0, p.Name, Append(PropValues(e0, p.Name), c.out))
                             EXCEPT !.size = @ + Len(c.out)],
                   value |-> c.out, ok |-> TRUE]

\* Set that keeps the values held
Set_KeepsValues(e, name, values) == Add(e, name, values)

\* EntityProxy.Set: delete(e.props, name), then Add
Set(e, name, values) == Add(DeleteProp(e, name), name, values)

\* EntityProxy.getProp: the property (or Nil) and the error ("" = nil)
getProp(e, name, quiet) ==
    LET p == SchemaGet(e.Schema, name) IN
    IF p # Nil THEN [p |-> p, err |-> ""]
    ELSE IF quiet THEN [p |-> Nil, err |-> ""]
    ELSE [p |-> Nil, err |-> "unknown property"]

\* EntityProxy.Pop: the proxy afterwards and the values returned
Pop(e, name, quiet) ==
    IF getProp(e, name, quiet).err # "" THEN [e |-> e, ret |-> <<>>]
    ELSE [e |-> DeleteProp(e, name), ret |-> PropValues(e, name)]

\* the values of xs that are not value, in order
RECURSIVE Without(_, _)
Without(xs, value) ==
    IF xs = <<>> THEN <<>>
    ELSE IF Head(xs) = value THEN Without(Tail(xs), value)
    ELSE <<Head(xs)>> \o Without(Tail(xs), value)

\* EntityProxy.Remove
Remove(e, name, value, quiet) ==
    IF getProp(e, name, quiet).err # "" THEN e
    ELSE LET outv == Without(PropValues(e, name), value) IN
         IF outv = <<>> THEN DeleteProp(e, name) ELSE SetProp(e, name, outv)

firstNonEmpty(a, b) == IF a # "" THEN a ELSE b

\* the loop of Merge over other.props, visited in the given order
RECURSIVE MergeLoop(_, _, _, _)
MergeLoop(e, other, order, i) ==
    IF i > Len(order) THEN e
    ELSE MergeLoop(Add(e, order[i], other.props[order[i]]).e, other, order, i + 1)

\* EntityProxy.Merge: the proxy afterwards, whether it is returned, the error
Merge(e, other, order) ==
    LET e1 == [e EXCEPT !.ID = firstNonEmpty(e.ID, other.ID)]
        cs == CommonSchema(SchemaRef(e.Schema), SchemaRef(other.Schema))
    IN  IF cs.err # "" THEN [e |-> e1, ok |-> FALSE, err |-> "cannot merge entities"]
        ELSE [e |-> MergeLoop([e1 EXCEPT !.Schema = cs.schema.Name], other, order, 1),
              ok |-> TRUE, err |-> ""]

-----------------------------------------------------------------------------
(* Statements                                                              *)

\* the bytes of the atomic strings
Bytes ==
    [x \in {""} |-> <<>>] @@
    ("a" :> <<"a">>) @@ ("b" :> <<"b">>) @@ ("c" :> <<"c">>) @@ ("X" :> <<"X">>) @@
    (" a" :> <<" ", "a">>) @@
    ("o" :> <<"o">>) @@
    ("ds" :> <<"d", "s">>) @@
    ("ds.a" :> <<"d", "s", ".", "a">>) @@ ("a.b" :> <<"a", ".", "b">>) @@
    ("url" :> <<"u", "r", "l">>) @@
    ("id" :> <<"i", "d">>) @@
    ("name" :> <<"n", "a", "m", "e">>) @@
    ("notes" :> <<"n", "o", "t", "e", "s">>) @@
    ("bogus" :> <<"b", "o", "g", "u", "s">>) @@
    ("ownershipOwner" :> <<"o", "w", "n", "e", "r", "s", "h", "i", "p", "O", "w", "n", "e", "r">>)

\* sha1 + hex of the key bytes, taken as collision free
Sha1Hex(k) == <<"sha1">> \o k

\* MakeStatementKey: "" when prop or value is empty
MakeStatementKey(dataset, entityID, prop, value, external) ==
    IF prop = "" \/ value = <<>> THEN <<>>
    ELSE Sha1Hex(Bytes[dataset] \o <<".">> \o Bytes[entityID] \o <<".">> \o Bytes[prop]
                 \o <<".">> \o value
                 \o (IF external THEN <<".", "e", "x", "t">> ELSE <<>>))

\* MakeKey hashing the canonical ID in place of the entity ID
MakeKey_ByCanonicalID(s) ==
    [s EXCEPT !.ID = MakeStatementKey(s.Dataset, s.CanonicalID, s.Prop, s.Value, s.External)]

\* Statement.MakeKey
MakeKey(s) ==
    [s EXCEPT !.ID = MakeStatementKey(s.Dataset, s.EntityID, s.Prop, s.Value, s.External)]

\* Statement.GroupKey
GroupKey(s) == IF s.CanonicalID # "" THEN s.CanonicalID ELSE s.EntityID

\* a Statement literal: the fields not given are the zero value
Statement(entityID, canonicalID, prop, schema, value, dataset) ==
    [ID |-> <<>>, EntityID |-> entityID, CanonicalID |-> canonicalID, Prop |-> prop,
     PropType |-> "", Schema |-> schema, Value |-> value, Dataset |-> dataset,
     Lang |-> "", Original |-> "", External |-> FALSE, FirstSeen |-> "",
     LastSeen |-> "", Origin |-> ""]

ifEmpty(v, alt) == IF v = "" THEN alt ELSE v

\* the statements of the values of the properties names[i..], in that order
RECURSIVE PropStatements(_, _, _, _)
PropStatements(e, names, i, proto) ==
    IF i > Len(names) THEN <<>>
    ELSE [j \in 1..Len(e.props[names[i]]) |->
              MakeKey([proto EXCEPT !.Prop = names[i], !.Value = e.props[names[i]][j]])]
         \o PropStatements(e, names, i + 1, proto)

\* StatementsFromEntity without the statement of the entity itself
StatementsFromEntity_NoBase(e, dataset, firstSeen, lastSeen, external, origin, order) ==
    IF e = Nil \/ e.ID = "" THEN <<>>
    ELSE LET proto == [Statement(e.ID, e.ID, BaseID, e.Schema, Bytes[e.ID], dataset)
                          EXCEPT !.External = external, !.FirstSeen = firstSeen,
                                 !.LastSeen = ifEmpty(lastSeen, firstSeen),
                                 !.Origin = origin]
         IN  PropStatements(e, order, 1, proto)

\* StatementsFromEntity; order is the order in which `range e.props` visits
\* the property names
StatementsFromEntity(e, dataset, firstSeen, lastSeen, external, origin, order) ==
    IF e = Nil \/ e.ID = "" THEN <<>>
    ELSE LET proto == [Statement(e.ID, e.ID, BaseID, e.Schema, Bytes[e.ID], dataset)
                          EXCEPT !.External = external, !.FirstSeen = firstSeen,
                                 !.LastSeen = ifEmpty(lastSeen, firstSeen),
                                 !.Origin = origin]
         IN  <<MakeKey(proto)>> \o PropStatements(e, order, 1, proto)

\* the string with these bytes
Atom(bs) == CHOOSE k \in DOMAIN Bytes : Bytes[k] = bs

\* Statement.Clean
StatementClean(s) ==
    LET id == Atom(TrimSpace(Bytes[s.EntityID])) IN
    [s EXCEPT !.EntityID = id,
              !.CanonicalID = ifEmpty(@, id),
              !.LastSeen = ifEmpty(@, s.FirstSeen)]

\* PropTypeName: the type name and the error ("" = nil)
PropTypeName(schema, prop) ==
    IF prop = BaseID THEN [name |-> BaseID, err |-> ""]
    ELSE IF ModelGet(schema) = NilSchema THEN [name |-> "", err |-> "schema not found"]
    ELSE LET pr == SchemaGet(schema, prop) IN
         IF pr = Nil THEN [name |-> "", err |-> "property not found"]
         ELSE [name |-> pr.Type, err |-> ""]

\* if s.ID == "" { s.MakeKey() }
KeyIfEmpty(s) == IF s.ID = <<>> THEN MakeKey(s) ELSE s

\* if s.PropType == "" { ... s.PropType = t }
BackfillPropType(s) ==
    LET t == PropTypeName(s.Schema, s.Prop) IN
    IF s.PropType = "" /\ t.err = "" THEN [s EXCEPT !.PropType = t.name] ELSE s

\* the JSON object of a statement: a field tagged omitempty is left out when
\* it is empty
JSONTags(s) ==
    [id |-> s.ID, entity_id |-> s.EntityID, canonical_id |-> s.CanonicalID,
     prop |-> s.Prop, prop_type |-> s.PropType, schema |-> s.Schema,
     value |-> s.Value, dataset |-> s.Dataset, lang |-> s.Lang,
     original_value |-> s.Original, external |-> s.External,
     first_seen |-> s.FirstSeen, last_seen |-> s.LastSeen, origin |-> s.Origin]

OmitEmpty ==
    {"id", "canonical_id", "prop_type", "lang", "original_value", "first_seen",
     "last_seen", "origin"}

EncodeJSON(s) ==
    LET all  == JSONTags(s)
        zero == [k \in OmitEmpty |-> IF k = "id" THEN <<>> ELSE ""]
        keep == {k \in DOMAIN all : k \notin OmitEmpty \/ all[k] # zero[k]}
    IN  [k \in keep |-> all[k]]

DecodeJSON(r) ==
    LET get(k, zero) == IF k \in DOMAIN r THEN r[k] ELSE zero IN
    [ID |-> get("id", <<>>), EntityID |-> get("entity_id", ""),
     CanonicalID |-> get("canonical_id", ""), Prop |-> get("prop", ""),
     PropType |-> get("prop_type", ""), Schema |-> get("schema", ""),
     Value |-> get("value", <<>>), Dataset |-> get("dataset", ""),
     Lang |-> get("lang", ""), Original |-> get("original_value", ""),
     External |-> get("external", FALSE), FirstSeen |-> get("first_seen", ""),
     LastSeen |-> get("last_seen", ""), Origin |-> get("origin", "")]

\* the header of WriteStatementsCSV
CSVHeader ==
    <<"id", "entity_id", "canonical_id", "prop", "schema", "value", "dataset", "lang",
      "original_value", "external", "first_seen", "last_seen", "origin">>

EncodeCSV(s) ==
    <<s.ID, s.EntityID, s.CanonicalID, s.Prop, s.Schema, s.Value, s.Dataset, s.Lang,
      s.Original, IF s.External THEN "true" ELSE "false", s.FirstSeen, s.LastSeen,
      s.Origin>>

\* strconv.ParseBool, its error dropped
ParseBool(str) == str \in {"1", "t", "T", "TRUE", "true", "True"}

DecodeCSV(header, rec) ==
    LET has(k) == \E p \in DOMAIN header : header[p] = k /\ p <= Len(rec)
        idx(k) == CHOOSE p \in DOMAIN header : header[p] = k
        get(k, zero) == IF has(k) THEN rec[idx(k)] ELSE zero
    IN  [ID |-> get("id", <<>>), EntityID |-> get("entity_id", ""),
         CanonicalID |-> get("canonical_id", ""), Prop |-> get("prop", ""),
         PropType |-> "", Schema |-> get("schema", ""),
         Value |-> get("value", <<>>), Dataset |-> get("dataset", ""),
         Lang |-> get("lang", ""), Original |-> get("original_value", ""),
         External |-> IF has("external") THEN ParseBool(rec[idx("external")]) ELSE FALSE,
         FirstSeen |-> get("first_seen", ""), LastSeen |-> get("last_seen", ""),
         Origin |-> get("origin", "")]

\* WriteStatementsJSONL: the slice afterwards and the lines written
WriteStatementsJSONL(st) ==
    LET st2 == [i \in DOMAIN st |-> KeyIfEmpty(StatementClean(st[i]))] IN
    [st |-> st2, recs |-> [i \in DOMAIN st |-> EncodeJSON(st2[i])]]

ReadStatementsJSONL(recs) ==
    [i \in DOMAIN recs |-> KeyIfEmpty(StatementClean(DecodeJSON(recs[i])))]

\* WriteStatementsCSV works on a copy of each statement
WriteStatementsCSV(st) ==
    [st |-> st,
     recs |-> <<CSVHeader>> \o [i \in DOMAIN st |-> EncodeCSV(KeyIfEmpty(StatementClean(st[i])))]]

ReadStatementsCSV(recs) ==
    [i \in 1..(Len(recs) - 1) |->
        KeyIfEmpty(StatementClean(DecodeCSV(recs[1], recs[i + 1])))]

\* WriteStatementsMsgpack: every field of the struct is encoded
WriteStatementsMsgpack(st) ==
    LET st2 == [i \in DOMAIN st |-> BackfillPropType(KeyIfEmpty(StatementClean(st[i])))] IN
    [st |-> st2, recs |-> st2]

ReadStatementsMsgpack(recs) ==
    [i \in DOMAIN recs |-> BackfillPropType(KeyIfEmpty(StatementClean(recs[i])))]

\* byte order of the group keys in use ("" < "X" < "a" < "b" < "c")
KeyRank == [x \in {""} |-> 0] @@ ("X" :> 1) @@ ("a" :> 2) @@ ("b" :> 3) @@ ("c" :> 4)

LessKey(k1, k2) == KeyRank[k1] < KeyRank[k2]

-----------------------------------------------------------------------------
(* Streaming aggregation: StatementAggregator                              *)

\* cur.Add(s.Prop, []string{s.Value}, true, "") with the error dropped
AddStatementValue(e, s) == Add(e, s.Prop, <<s.Value>>).e

\* SaAdd with the first statement of a group only starting the proxy: its
\* value is not added
SaAdd_SkipsFirstValue(sa, s) ==
    LET gk == GroupKey(s) IN
    IF sa.cur = 0 \/ gk # sa.key
    THEN LET done == sa.cur
             sc   == ModelGet(s.Schema)
         IN  IF sc = NilSchema
             THEN [heap |-> sa.heap, cur |-> sa.cur, key |-> sa.key, ret |-> done]
             ELSE [heap |-> Append(sa.heap, NewEntityProxy(sc, gk)),
                   cur |-> Len(sa.heap) + 1, key |-> gk, ret |-> done]
    ELSE [heap |-> IF s.Prop # BaseID
                   THEN [sa.heap EXCEPT ![sa.cur] = AddStatementValue(@, s)]
                   ELSE sa.heap,
          cur |-> sa.cur, key |-> sa.key, ret |-> 0]

\* StatementAggregator.Add on the aggregator sa = [heap, cur, key]: the
\* aggregator afterwards and the reference returned (0 = nil)
SaAdd(sa, s) ==
    LET gk == GroupKey(s) IN
    IF sa.cur = 0 \/ gk # sa.key
    THEN LET done == sa.cur
             sc   == ModelGet(s.Schema)
         IN  IF sc = NilSchema
             THEN [heap |-> sa.heap, cur |-> sa.cur, key |-> sa.key, ret |-> done]
             ELSE LET e0 == NewEntityProxy(sc, gk)
                      e1 == IF s.Prop # BaseID THEN AddStatementValue(e0, s) ELSE e0
                  IN  [heap |-> Append(sa.heap, e1), cur |-> Len(sa.heap) + 1,
                       key |-> gk, ret |-> done]
    ELSE [heap |-> IF s.Prop # BaseID
                   THEN [sa.heap EXCEPT ![sa.cur] = AddStatementValue(@, s)]
                   ELSE sa.heap,
          cur |-> sa.cur, key |-> sa.key, ret |-> 0]

\* SaFlush that resets before it reads the entity in progress
SaFlush_ReturnsNothing(sa) == [heap |-> sa.heap, cur |-> 0, key |-> "", ret |-> 0]

\* StatementAggregator.Flush
SaFlush(sa) == [heap |-> sa.heap, cur |-> 0, key |-> "", ret |-> sa.cur]

-----------------------------------------------------------------------------
(* Batch aggregation: AggregateSortedStatements                            *)

\* sort.Slice(st, less by GroupKey) for the lengths in use (up to 12
\* elements sort.Slice is an insertion sort)
RECURSIVE InsertionSort(_, _)
InsertionSort(st, i) ==
    IF i > Len(st) THEN st
    ELSE LET js == {j \in 1..i : \A k \in j..(i - 1) : LessKey(GroupKey(st[i]), GroupKey(st[k]))}
             j  == CHOOSE x \in js : \A y \in js : x <= y
             moved == [k \in 1..Len(st) |->
                          IF k < j \/ k > i THEN st[k]
                          ELSE IF k = j THEN st[i] ELSE st[k - 1]]
         IN  InsertionSort(moved, i + 1)

\* SortByGroupKey that leaves the input as it came
SortByGroupKey_Unsorted(st) == st

SortByGroupKey(st) == InsertionSort(st, 2)

\* BatchStep that groups by entity_id instead of the group key
BatchStep_KeyByEntityID(b, s) ==
    LET k == s.EntityID IN
    IF b.cur = 0 \/ k # b.curKey
    THEN LET out1 == IF b.cur # 0 THEN Append(b.out, b.cur) ELSE b.out
             sc   == ModelGet(s.Schema)
         IN  IF sc = NilSchema
             THEN [b EXCEPT !.out = out1]
             ELSE LET e0 == NewEntityProxy(sc, k)
                      e1 == IF s.Prop = BaseID THEN e0 ELSE AddStatementValue(e0, s)
                  IN  [heap |-> Append(b.heap, e1), out |-> out1,
                       cur |-> Len(b.heap) + 1, curKey |-> k]
    ELSE IF s.Prop = BaseID THEN b
         ELSE [b EXCEPT !.heap[b.cur] = AddStatementValue(@, s)]

\* one iteration of the loop over the sorted statements, on
\* b = [heap, out, cur, curKey]
BatchStep(b, s) ==
    LET k == GroupKey(s) IN
    IF b.cur = 0 \/ k # b.curKey
    THEN LET out1 == IF b.cur # 0 THEN Append(b.out, b.cur) ELSE b.out
             sc   == ModelGet(s.Schema)
         IN  IF sc = NilSchema
             THEN [b EXCEPT !.out = out1]
             ELSE LET e0 == NewEntityProxy(sc, k)
                      e1 == IF s.Prop = BaseID THEN e0 ELSE AddStatementValue(e0, s)
                  IN  [heap |-> Append(b.heap, e1), out |-> out1,
                       cur |-> Len(b.heap) + 1, curKey |-> k]
    ELSE IF s.Prop = BaseID THEN b
         ELSE [b EXCEPT !.heap[b.cur] = AddStatementValue(@, s)]

RECURSIVE BatchLoop(_, _, _)
BatchLoop(b, st, i) ==
    IF i > Len(st) THEN b ELSE BatchLoop(BatchStep(b, st[i]), st, i + 1)

\* AggregateSortedStatements: the returned list, as references into the heap
\* of the proxies it made
AggregateSortedStatements(st) ==
    IF Len(st) = 0 THEN [heap |-> <<>>, out |-> <<>>]
    ELSE LET b == BatchLoop([heap |-> <<>>, out |-> <<>>, cur |-> 0, curKey |-> ""],
                            SortByGroupKey(st), 1)
         IN  [heap |-> b.heap,
              out  |-> IF b.cur # 0 THEN Append(b.out, b.cur) ELSE b.out]

\* the proxies a list of references points to
Deref(h, refs) == [i \in 1..Len(refs) |-> h[refs[i]]]

\* the list AggregateSortedStatements returns
BatchEnts(st) == LET r == AggregateSortedStatements(st) IN Deref(r.heap, r.out)

-----------------------------------------------------------------------------
(* Aggregation runs: a caller feeds statements to a StatementAggregator,   *)
(* flushes it at the end of the stream, and hands the same statements to   *)
(* AggregateSortedStatements.                                              *)

MaxInput   == 3     \* statements per run, any order, any schema
MaxOrdered == 4     \* statements per run, ordered by group key, known schemas

ValA  == <<"A">>
ValB  == <<"B">>
ValQA == <<QUOTE, "A">>      \* the name type cleans it to ValA

AggStatements(ids, schemas, facts) ==
    {MakeKey(Statement(id[1], id[2], BaseID, sc, Bytes[id[1]], "ds")) :
        id \in ids, sc \in schemas}
    \cup
    {MakeKey(Statement(id[1], id[2], f[1], sc, f[2], "ds")) :
        id \in ids, sc \in schemas, f \in facts}

\* any order: two known schemas and an unknown one, a property only Person has
Universe ==
    AggStatements({<<"a", "">>, <<"a", "X">>, <<"b", "X">>},
                  {"Thing", "Person", "Nope"},
                  {<<"name", ValQA>>, <<"notes", ValB>>})

\* ordered streams: known schemas, values that clean to the same value
OrderedUniverse ==
    AggStatements({<<"a", "">>, <<"b", "">>, <<"a", "X">>, <<"b", "X">>},
                  {"Person"},
                  {<<"name", ValA>>, <<"name", ValQA>>, <<"name", ValB>>})

\* ordered streams that also name an unknown schema
EquivUniverse ==
    AggStatements({<<"a", "">>, <<"a", "X">>, <<"b", "X">>},
                  {"Person", "Nope"},
                  {<<"name", ValA>>, <<"name", ValQA>>, <<"name", ValB>>})

IdleProxy == ent = Nil /\ last = NoCall
IdleCodec == stmts = <<>> /\ wire = NoWire /\ back = <<>>

IdleModel == model = NoModel /\ se = Nil /\ graph = Nil

InitAgg ==
    /\ heap = <<>> /\ cur = 0 /\ key = "" /\ hist = <<>> /\ out = <<>>
    /\ flushed = FALSE /\ batchOut = NotRun

Init == InitAgg /\ IdleProxy /\ IdleCodec /\ IdleModel

\* agg.Add(s); a non-nil result is appended to out
StreamAdd(s) ==
    /\ ~flushed
    /\ LET r == SaAdd([heap |-> heap, cur |-> cur, key |-> key], s) IN
        /\ heap' = r.heap
        /\ cur' = r.cur
        /\ key' = r.key
        /\ out' = IF r.ret # 0 THEN Append(out, r.ret) ELSE out
    /\ hist' = Append(hist, s)
    /\ UNCHANGED <<flushed, batchOut, proxyVars, codecVars, modelVars>>

\* agg.Flush() at the end of the stream
Flush ==
    /\ ~flushed
    /\ LET r == SaFlush([heap |-> heap, cur |-> cur, key |-> key]) IN
        /\ heap' = r.heap
        /\ cur' = r.cur
        /\ key' = r.key
        /\ out' = IF r.ret # 0 THEN Append(out, r.ret) ELSE out
    /\ flushed' = TRUE
    /\ UNCHANGED <<hist, batchOut, proxyVars, codecVars, modelVars>>

\* AggregateSortedStatements(m, st) on the statements of the stream
Aggregate ==
    /\ flushed
    /\ ~batchOut.ran
    /\ batchOut' = [ran |-> TRUE, ents |-> BatchEnts(hist)]
    /\ UNCHANGED <<heap, cur, key, hist, out, flushed, proxyVars, codecVars, modelVars>>

AddAny == \E s \in Universe : Len(hist) < MaxInput /\ StreamAdd(s)

\* the caller keeps the stream ordered by group key
AddOrdered ==
    \E s \in OrderedUniverse :
        /\ Len(hist) < MaxOrdered
        /\ hist # <<>> => ~LessKey(GroupKey(s), GroupKey(hist[Len(hist)]))
        /\ StreamAdd(s)

AddOrderedAny ==
    \E s \in EquivUniverse :
        /\ Len(hist) < MaxInput
        /\ hist # <<>> => ~LessKey(GroupKey(s), GroupKey(hist[Len(hist)]))
        /\ StreamAdd(s)

Next == AddAny \/ Flush \/ Aggregate

Spec == Init /\ [][Next]_vars

NextOrdered == AddOrdered \/ Flush \/ Aggregate

SpecOrdered == Init /\ [][NextOrdered]_vars

NextEquiv == AddOrderedAny \/ Flush \/ Aggregate

SpecEquiv == Init /\ [][NextEquiv]_vars

-----------------------------------------------------------------------------
(* Entity runs: a caller writes to an EntityProxy, then decomposes it into *)
(* statements and aggregates those again.                                  *)

MaxSize == 4        \* writes stop once the proxy's size counter reaches it

ValTQA == <<TAB, QUOTE, "A">>   \* cleans to ValQA

RawValues == {<<>>, ValA, ValB, ValTQA}

RawValueLists == {<<v>> : v \in RawValues} \cup {<<v, w>> : v, w \in RawValues}

WriteNames == {"name", "notes", "bogus", "ownershipOwner"}

Decomposed == last.op = "StatementsFromEntity"

Writable == ~Decomposed /\ ent.size < MaxSize

\* the orders in which a map with these keys can be iterated
KeyOrders(S) ==
    {f \in [1..Cardinality(S) -> S] : \A i, j \in 1..Cardinality(S) : f[i] = f[j] => i = j}

InitEntity ==
    /\ ent \in {NewEntityProxy(sc, id) : sc \in {"Thing", "Person"}, id \in {"", "a"}}
    /\ last = NoCall
    /\ InitAgg /\ IdleCodec /\ IdleModel

Call(op, name, err) == [op |-> op, name |-> name, err |-> err]

\* ent.Add(name, values, fuzzy, "")
ProxyAdd ==
    \E name \in WriteNames, values \in RawValueLists :
        /\ Writable
        /\ LET r == Add(ent, name, values) IN
            /\ ent' = r.e
            /\ last' = Call("Add", name, r.err)
        /\ UNCHANGED <<aggVars, codecVars, modelVars>>

\* ent.Set(name, values, fuzzy, "")
ProxySet ==
    \E name \in WriteNames, values \in RawValueLists :
        /\ Writable
        /\ LET r == Set(ent, name, values) IN
            /\ ent' = r.e
            /\ last' = Call("Set", name, r.err)
        /\ UNCHANGED <<aggVars, codecVars, modelVars>>

\* ent.UnsafeAdd(p, value, fuzzy) with p a property of the proxy's Schema
ProxyUnsafeAdd ==
    \E name \in DOMAIN Schemata[ent.Schema], value \in RawValues :
        /\ Writable
        /\ LET r == UnsafeAdd(ent, SchemaGet(ent.Schema, name), value) IN
            /\ ent' = r.e
            /\ last' = Call("UnsafeAdd", name, IF r.ok THEN "" ELSE "not added")
        /\ UNCHANGED <<aggVars, codecVars, modelVars>>

HeldValues == {ValA, ValB, ValQA}

\* ent.Remove(name, value, quiet)
ProxyRemove ==
    \E name \in WriteNames, value \in HeldValues, quiet \in BOOLEAN :
        /\ ~Decomposed
        /\ ent' = Remove(ent, name, value, quiet)
        /\ last' = Call("Remove", name, "")
        /\ UNCHANGED <<aggVars, codecVars, modelVars>>

\* ent.Pop(name, quiet)
ProxyPop ==
    \E name \in WriteNames, quiet \in BOOLEAN :
        /\ ~Decomposed
        /\ ent' = Pop(ent, name, quiet).e
        /\ last' = Call("Pop", name, "")
        /\ UNCHANGED <<aggVars, codecVars, modelVars>>

\* the proxies a caller merges into ent, built with Add
OtherProxies ==
    {Add(Add(NewEntityProxy("Person", "b"), "name", <<ValB>>).e, "notes", <<ValQA>>).e,
     Add(NewEntityProxy("Thing", "c"), "name", <<ValTQA>>).e,
     Add(NewEntityProxy("Company", "c"), "name", <<ValA>>).e}

\* ent.Merge(other); order is the order in which `range other.props` visits
\* the property names
ProxyMerge ==
    \E other \in OtherProxies : \E order \in KeyOrders(DOMAIN other.props) :
        /\ Writable
        /\ LET r == Merge(ent, other, order) IN
            /\ ent' = r.e
            /\ last' = Call("Merge", "", r.err)
        /\ UNCHANGED <<aggVars, codecVars, modelVars>>

\* st := StatementsFromEntity(ent, "ds", "2024", "", false, "test")
Decompose ==
    /\ ~Decomposed
    /\ \E order \in KeyOrders(DOMAIN ent.props) :
           stmts' = StatementsFromEntity(ent, "ds", "2024", "", FALSE, "test", order)
    /\ last' = Call("StatementsFromEntity", "", "")
    /\ UNCHANGED <<ent, aggVars, wire, back, modelVars>>

\* AggregateSortedStatements(m, st) on the statements of the entity
Reaggregate ==
    /\ Decomposed
    /\ ~batchOut.ran
    /\ batchOut' = [ran |-> TRUE, ents |-> BatchEnts(stmts)]
    /\ UNCHANGED <<heap, cur, key, hist, out, flushed, proxyVars, codecVars, modelVars>>

NextEntity ==
    \/ ProxyAdd \/ ProxySet \/ ProxyUnsafeAdd
    \/ ProxyRemove \/ ProxyPop \/ ProxyMerge
    \/ Decompose \/ Reaggregate

SpecEntity == InitEntity /\ [][NextEntity]_vars

-----------------------------------------------------------------------------
(* Single calls: one Add, Set or Merge on a proxy that earlier calls have  *)
(* filled, recorded with its arguments and the proxy before it.            *)

\* a name one byte longer than NameMaxLength
ValLong == [i \in 1..(NameMaxLength + 1) |-> "x"]

\* a proxy as Add builds it
Built(sc, id, names, notes) ==
    Add(Add(NewEntityProxy(sc, id), "name", names).e, "notes", notes).e

\* the proxy after n more bytes were written to it and taken away again:
\* Set, Pop and Remove leave the size counter where it is
Worn(e, n) == [e EXCEPT !.size = @ + n]

StartProxies ==
    {Worn(Built(sc, id, names, notes), n) :
        sc \in {"Thing", "Person"}, id \in {"", "a"},
        names \in {<<>>, <<ValA>>, <<ValTQA>>, <<ValA, ValB>>},
        notes \in {<<>>, <<ValA>>, <<ValB, ValQA>>},
        n \in {0, TextTotalSize - 2}}

CallValueLists == RawValueLists \cup {<<ValLong, ValA>>}

InitCall ==
    /\ ent \in StartProxies
    /\ last = NoCall
    /\ InitAgg /\ IdleCodec /\ IdleModel

\* ent.Add(name, values, fuzzy, "")
CallAdd ==
    \E name \in WriteNames, values \in CallValueLists :
        /\ last = NoCall
        /\ LET r == Add(ent, name, values) IN
            /\ ent' = r.e
            /\ last' = [op |-> "Add", name |-> name, values |-> values, err |-> r.err,
                        before |-> ent]
        /\ UNCHANGED <<aggVars, codecVars, modelVars>>

\* ent.Set(name, values, fuzzy, "")
CallSet ==
    \E name \in WriteNames, values \in CallValueLists :
        /\ last = NoCall
        /\ LET r == Set(ent, name, values) IN
            /\ ent' = r.e
            /\ last' = [op |-> "Set", name |-> name, values |-> values, err |-> r.err,
                        before |-> ent]
        /\ UNCHANGED <<aggVars, codecVars, modelVars>>

\* ent.Merge(other)
CallMerge ==
    \E other \in OtherProxies : \E order \in KeyOrders(DOMAIN other.props) :
        /\ last = NoCall
        /\ LET r == Merge(ent, other, order) IN
            /\ ent' = r.e
            /\ last' = [op |-> "Merge", other |-> other, err |-> r.err, before |-> ent]
        /\ UNCHANGED <<aggVars, codecVars, modelVars>>

NextCall == CallAdd \/ CallSet \/ CallMerge

SpecCall == InitCall /\ [][NextCall]_vars

-----------------------------------------------------------------------------
(* NewModel: the schema definitions read from the YAML files, loadAll, and *)
(* Model.Generate visiting the schemata in the order of a map range.       *)

\* a propertySpec: type, range ("" = none) and the reverse name ("" = none)
PropSpec(type, range, reverse) == [Type |-> type, Range |-> range, Reverse |-> reverse]

NoProps == [n \in {} |-> PropSpec("", "", "")]

\* the schemaSpecs of one model directory
ModelDef(companyExtends, legalName, ownerRange, ownerReverse) ==
    [Thing       |-> [Extends |-> <<>>, Properties |-> [name |-> PropSpec("name", "", "")]],
     LegalEntity |-> [Extends |-> <<"Thing">>,
                      Properties |-> IF legalName THEN [name |-> PropSpec("", "", "")]
                                     ELSE NoProps],
     Asset       |-> [Extends |-> <<"Thing">>, Properties |-> NoProps],
     Company     |-> [Extends |-> companyExtends, Properties |-> NoProps],
     Ownership   |-> [Extends |-> <<>>,
                      Properties |-> [owner |-> PropSpec("entity", ownerRange, ownerReverse)]]]

ModelDefs ==
    {ModelDef(ce, ln, rng, rev) :
        ce \in {<<"LegalEntity">>, <<"LegalEntity", "Asset">>, <<"Missing">>},
        ln \in BOOLEAN,
        rng \in {"LegalEntity", "Company", "Missing"},
        rev \in {"ownershipOwner", "name", ""}}

QName(schema, name) == <<schema, name>>

NoQName == <<>>

\* newProperty: an empty or unknown type name gives the string type
newProperty(schema, name, spec) ==
    [Schema |-> schema, Name |-> name,
     Type |-> IF spec.Type \in {"name", "entity", "text"} THEN spec.Type ELSE "string",
     Range |-> "", Reverse |-> NoQName, Stub |-> FALSE]

\* newSchema: own properties, ancestry holding the schema itself
newSchema(name, spec) ==
    [Name |-> name, Names |-> {name}, Extends |-> <<>>, Descendants |-> {},
     Properties |-> [pn \in DOMAIN spec.Properties |-> QName(name, pn)],
     generated |-> FALSE]

\* the qualified names of the properties the schemaSpecs declare
DeclaredQNames(defs) ==
    {q \in (DOMAIN defs) \X {"name", "owner"} : q[2] \in DOMAIN defs[q[1]].Properties}

\* Model.loadAll: every schema registered, the range and reverse indexes, and
\* the parent names resolved; a parent name that is no schema is an error
loadAll(defs) ==
    LET qs      == DeclaredQNames(defs)
        missing == {s \in DOMAIN defs :
                        \E i \in DOMAIN defs[s].Extends : defs[s].Extends[i] \notin DOMAIN defs}
    IN  IF missing # {} THEN [phase |-> "failed", defs |-> defs, err |-> "invalid extends"]
        ELSE [phase |-> "loaded", defs |-> defs, err |-> "",
              Schemata |-> [s \in DOMAIN defs |-> newSchema(s, defs[s])],
              props |-> [q \in qs |-> newProperty(q[1], q[2], defs[q[1]].Properties[q[2]])],
              extendsIndex |-> [s \in DOMAIN defs |-> defs[s].Extends],
              rangeIndex |-> [q \in {x \in qs : defs[x[1]].Properties[x[2]].Range # ""} |->
                                 defs[q[1]].Properties[q[2]].Range],
              reverseIndex |-> [q \in {x \in qs : defs[x[1]].Properties[x[2]].Reverse # ""} |->
                                   defs[q[1]].Properties[q[2]].Reverse],
              visited |-> {}]

\* the body of the loop over the parents for a parent not yet in s.Schemata:
\* Extends, the parent's properties under names s has none for, the ancestry
InheritFrom(m, s, parent) ==
    LET own == m.Schemata[s].Properties
        inh == m.Schemata[parent].Properties
        anc == m.Schemata[parent].Names
    IN  [m EXCEPT !.Schemata = [x \in DOMAIN m.Schemata |->
            LET sx == IF x \in anc THEN [m.Schemata[x] EXCEPT !.Descendants = @ \cup {s}]
                      ELSE m.Schemata[x]
            IN  IF x = s
                THEN [sx EXCEPT !.Extends = Append(@, parent),
                                !.Properties = [n \in DOMAIN own \cup DOMAIN inh |->
                                                   IF n \in DOMAIN own THEN own[n] ELSE inh[n]],
                                !.Names = @ \cup anc]
                ELSE sx]]

\* the body of the loop over s.Properties: the range of an entity property
\* is resolved when its name is a schema, and the reverse is the range's
\* property of the reverse name, a new stub when the range has none
ResolveProp(m, s, pn) ==
    LET q  == m.Schemata[s].Properties[pn]
        m1 == IF /\ m.props[q].Range = ""
                 /\ q \in DOMAIN m.rangeIndex
                 /\ m.rangeIndex[q] \in DOMAIN m.Schemata
              THEN [m EXCEPT !.props[q].Range = m.rangeIndex[q]]
              ELSE m
        target == m1.props[q].Range
    IN  IF m.props[q].Type # "entity" THEN m
        ELSE IF m1.props[q].Reverse # NoQName \/ q \notin DOMAIN m1.reverseIndex \/ target = ""
        THEN m1
        ELSE LET rn == m1.reverseIndex[q]
                 tp == m1.Schemata[target].Properties
             IN  IF rn \in DOMAIN tp THEN [m1 EXCEPT !.props[q].Reverse = tp[rn]]
                 ELSE LET rev == QName(target, rn) IN
                      [m1 EXCEPT
                         !.props = [x \in DOMAIN m1.props \cup {rev} |->
                             IF x = rev
                             THEN [Schema |-> target, Name |-> rn, Type |-> "entity",
                                   Range |-> s, Reverse |-> NoQName, Stub |-> TRUE]
                             ELSE IF x = q THEN [m1.props[q] EXCEPT !.Reverse = rev]
                             ELSE m1.props[x]],
                         !.Schemata[target].Properties =
                             [n \in DOMAIN tp \cup {rn} |-> IF n = rn THEN rev ELSE tp[n]]]

RECURSIVE ResolveLoop(_, _, _)
ResolveLoop(m, s, names) ==
    IF names = {} THEN m
    ELSE LET pn == CHOOSE n \in names : TRUE
         IN  ResolveLoop(ResolveProp(m, s, pn), s, names \ {pn})

RECURSIVE SchemaGenerate(_, _)
RECURSIVE InheritLoop(_, _, _)

\* the loop of Schema.Generate over extendsIndex[s.Name]
InheritLoop(m, s, i) ==
    IF i > Len(m.extendsIndex[s]) THEN m
    ELSE LET parent == m.extendsIndex[s][i]
             m1     == SchemaGenerate(m, parent)
         IN  IF parent \in m1.Schemata[s].Names THEN InheritLoop(m1, s, i + 1)
             ELSE InheritLoop(InheritFrom(m1, s, parent), s, i + 1)

\* Schema.Generate
SchemaGenerate(m, s) ==
    IF m.Schemata[s].generated THEN m
    ELSE LET m1 == InheritLoop(m, s, 1)
             m2 == ResolveLoop(m1, s, DOMAIN m1.Schemata[s].Properties)
         IN  [m2 EXCEPT !.Schemata[s].generated = TRUE]

\* Schema.Get: the property's qualified name, NoQName for nil
SchemaGetQ(m, s, name) ==
    IF name \in DOMAIN m.Schemata[s].Properties THEN m.Schemata[s].Properties[name]
    ELSE NoQName

\* the error of EntityProxy.Add on a proxy of schema s for the property name
AddErr(m, s, name) ==
    LET q == SchemaGetQ(m, s, name) IN
    IF q = NoQName THEN "unknown property"
    ELSE IF m.props[q].Stub THEN "stub property cannot be written"
    ELSE ""

InitModel ==
    /\ model \in {[phase |-> "defs", defs |-> d] : d \in ModelDefs}
    /\ se = Nil /\ graph = Nil
    /\ InitAgg /\ IdleProxy /\ IdleCodec

\* NewModel, first half: loadAll
LoadAll ==
    /\ model.phase = "defs"
    /\ model' = loadAll(model.defs)
    /\ UNCHANGED <<aggVars, proxyVars, codecVars, se, graph>>

\* Model.Generate, one turn of `for _, s := range m.Schemata`
GenerateNext ==
    \E s \in DOMAIN model.defs :
        /\ model.phase = "loaded"
        /\ s \notin model.visited
        /\ model' = [SchemaGenerate(model, s) EXCEPT !.visited = @ \cup {s}]
        /\ UNCHANGED <<aggVars, proxyVars, codecVars, se, graph>>

\* Model.Generate, after the loop: the QName index; NewModel returns the model
GenerateIndex ==
    /\ model.phase = "loaded"
    /\ model.visited = DOMAIN model.defs
    /\ model' = [model EXCEPT !.phase = "done"]
    /\ UNCHANGED <<aggVars, proxyVars, codecVars, se, graph>>

NextModel == LoadAll \/ GenerateNext \/ GenerateIndex

SpecModel == InitModel /\ [][NextModel]_vars

-----------------------------------------------------------------------------
(* StatementEntity: AddStatement calls on one entity of the resolved Model *)

SeenTimes == {"", "2020", "2021"}

\* the order of the timestamps as strings
SeenRank == [t \in SeenTimes |-> IF t = "" THEN 0 ELSE IF t = "2020" THEN 1 ELSE 2]

NoStmts == [p \in {} |-> <<>>]

\* NewStatementEntity for a schema of the model
NewStatementEntity(dataset, schemaName, id) ==
    [Schema |-> schemaName, ID |-> id, Dataset |-> dataset, stmts |-> NoStmts,
     ExtraReferents |-> {}, LastChange |-> ""]

\* AddStatement after the schema was settled: a BaseID statement moves
\* LastChange only, any other is keyed, typed and stored under its property
\* and ID
StoreStatement(e, s) ==
    IF s.Prop = BaseID
    THEN IF s.FirstSeen # "" /\ (e.LastChange = "" \/ SeenRank[s.FirstSeen] > SeenRank[e.LastChange])
         THEN [e EXCEPT !.LastChange = s.FirstSeen]
         ELSE e
    ELSE LET s1   == BackfillPropType(KeyIfEmpty(s))
             s2   == IF s1.CanonicalID = "" /\ e.ID # "" THEN [s1 EXCEPT !.CanonicalID = e.ID]
                     ELSE s1
             held == IF s.Prop \in DOMAIN e.stmts THEN e.stmts[s.Prop] ELSE <<>>
             byID == [id \in DOMAIN held \cup {s2.ID} |-> IF id = s2.ID THEN s2 ELSE held[id]]
         IN  [e EXCEPT !.stmts = [p \in DOMAIN e.stmts \cup {s.Prop} |->
                                     IF p = s.Prop THEN byID ELSE e.stmts[p]],
                       !.ExtraReferents = IF s.EntityID # "" /\ s.EntityID # e.ID
                                          THEN @ \cup {s.EntityID} ELSE @]

\* AddStatement that stores without adapting the entity's schema
AddStatement_KeepsSchema(e, s) ==
    LET mine == SchemaRef(e.Schema) IN
    IF e.Schema # s.Schema /\ ~IsA(mine, s.Schema)
    THEN LET other == SchemaRef(s.Schema) IN
         IF other = Nil THEN [se |-> e, err |-> "schema not found"]
         ELSE LET cs == CommonSchema(mine, other) IN
              IF cs.err # "" THEN [se |-> e, err |-> cs.err]
              ELSE [se |-> StoreStatement(e, s), err |-> ""]
    ELSE [se |-> StoreStatement(e, s), err |-> ""]

\* StatementEntity.AddStatement: the entity afterwards and the error
AddStatement(e, s) ==
    LET mine == SchemaRef(e.Schema) IN
    IF e.Schema # s.Schema /\ ~IsA(mine, s.Schema)
    THEN LET other == SchemaRef(s.Schema) IN
         IF other = Nil THEN [se |-> e, err |-> "schema not found"]
         ELSE LET cs == CommonSchema(mine, other) IN
              IF cs.err # "" THEN [se |-> e, err |-> cs.err]
              ELSE [se |-> StoreStatement([e EXCEPT !.Schema = cs.schema.Name], s), err |-> ""]
    ELSE [se |-> StoreStatement(e, s), err |-> ""]

\* the bytes in use, in byte order
ByteOrder ==
    <<"\t", " ", "\"", "'", ".", "1", "2", "A", "B", "X", "a", "b", "c", "d", "e", "g", "h", "i",
      "m", "n", "o", "p", "r", "s", "sha1", "t", "u", "w", "x">>

ByteRank(c) == CHOOSE i \in DOMAIN ByteOrder : ByteOrder[i] = c

\* x < y for Go strings: byte-wise, a proper prefix first
LessBytes(x, y) ==
    \E i \in 1..Len(y) :
        /\ \A j \in 1..(i - 1) : j <= Len(x) /\ x[j] = y[j]
        /\ i > Len(x) \/ ByteRank(x[i]) < ByteRank(y[i])

\* the elements of S as sort.Strings / sort.Slice leave them: ascending
RECURSIVE Ascending(_)
Ascending(S) ==
    IF S = {} THEN <<>>
    ELSE LET m == CHOOSE x \in S : \A y \in S \ {x} : LessBytes(x, y)
         IN  <<m>> \o Ascending(S \ {m})

\* sort.Strings over the keys of a map
SortedNames(S) ==
    LET bs == Ascending({Bytes[k] : k \in S}) IN
    [i \in DOMAIN bs |-> CHOOSE k \in S : Bytes[k] = bs[i]]

\* the statements of se.stmts in the order Statements visits them: property
\* names ascending, statement IDs ascending within a property
RECURSIVE StatementsInOrder(_, _, _)
StatementsInOrder(e, keys, i) ==
    IF i > Len(keys) THEN <<>>
    ELSE LET byID == e.stmts[keys[i]]
             ids  == Ascending(DOMAIN byID)
         IN  [j \in DOMAIN ids |-> byID[ids[j]]] \o StatementsInOrder(e, keys, i + 1)

\* the loop of Statements over the statements: lastSeen and firstSeen
RECURSIVE SeenLoop(_, _, _)
SeenLoop(arr, i, acc) ==
    IF i > Len(arr) THEN acc
    ELSE LET s  == arr[i]
             ls == IF s.LastSeen # "" /\ SeenRank[s.LastSeen] > SeenRank[acc.lastSeen]
                   THEN s.LastSeen ELSE acc.lastSeen
             fs == IF acc.firstSeen = ""
                      \/ (s.FirstSeen # "" /\ SeenRank[s.FirstSeen] < SeenRank[acc.firstSeen])
                   THEN s.FirstSeen ELSE acc.firstSeen
         IN  SeenLoop(arr, i + 1, [lastSeen |-> ls, firstSeen |-> fs])

\* Statements without the synthesized BaseID statement
Statements_NoBase(e) ==
    StatementsInOrder(e, SortedNames(DOMAIN e.stmts), 1)

\* StatementEntity.Statements
Statements(e) ==
    LET arr  == StatementsInOrder(e, SortedNames(DOMAIN e.stmts), 1)
        seen == SeenLoop(arr, 1, [lastSeen |-> "", firstSeen |-> ""])
    IN  IF e.ID = "" THEN arr
        ELSE Append(arr,
                 [Statement(e.ID, e.ID, BaseID, e.Schema, Bytes[e.ID], e.Dataset)
                     EXCEPT !.PropType = BaseID,
                            !.FirstSeen = ifEmpty(seen.firstSeen, e.LastChange),
                            !.LastSeen = seen.lastSeen])

\* the first_seen and last_seen a given statement carries
SeenPairs == {<<"", "">>, <<"2020", "2021">>, <<"2021", "2020">>}

\* the statements a caller hands to AddStatement
GivenStatements ==
    {[Statement(eid, "", prop, sc, IF prop = BaseID THEN Bytes[eid] ELSE ValA, "ds")
         EXCEPT !.FirstSeen = seen[1], !.LastSeen = seen[2]] :
        eid \in {"a", "c"}, prop \in {"name", BaseID},
        sc \in {"Thing", "Person", "Company", "Nope"}, seen \in SeenPairs}

InitStatementEntity ==
    /\ se \in {NewStatementEntity("ds", sc, id) : sc \in SchemaNames, id \in {"a", ""}}
    /\ last = NoCall /\ ent = Nil
    /\ model = NoModel /\ graph = Nil
    /\ InitAgg /\ IdleCodec

\* se.AddStatement(m, s)
SeAddStatement ==
    \E s \in GivenStatements :
        LET r == AddStatement(se, s) IN
        /\ se' = r.se
        /\ last' = [op |-> "AddStatement", s |-> s, err |-> r.err, before |-> se]
        /\ UNCHANGED <<aggVars, ent, codecVars, model, graph>>

\* se.Statements()
SeStatements ==
    /\ last' = [op |-> "Statements", out |-> Statements(se)]
    /\ UNCHANGED <<aggVars, ent, codecVars, modelVars>>

NextStatementEntity == SeAddStatement \/ SeStatements

SpecStatementEntity == InitStatementEntity /\ [][NextStatementEntity]_vars

-----------------------------------------------------------------------------
(* Graph: proxies added to a property graph of nodes and edges             *)

\* a property of the schemas the graph's proxies have: type and range
GProp(name, type, range) == [Name |-> name, Type |-> type, Range |-> range]

\* Person is node-shaped, Ownership is edge-shaped (owner -> asset)
GraphSchemata ==
    [Person    |-> [Edge |-> FALSE, EdgeSource |-> "", EdgeTarget |-> "",
                    Properties |-> [name    |-> GProp("name", "name", ""),
                                    notes   |-> GProp("notes", "text", ""),
                                    website |-> GProp("website", "url", "")]],
     Ownership |-> [Edge |-> TRUE, EdgeSource |-> "owner", EdgeTarget |-> "asset",
                    Properties |-> [owner |-> GProp("owner", "entity", "Person"),
                                    asset |-> GProp("asset", "entity", "Company")]]]

\* PropertyType.Matchable of the types in use
Matchable(t) == t \in {"name", "url", "country"}

\* PropertyType.Specificity in 47ths: 0 for every type but name, for a name
\* 0 up to 3 bytes, 1 from 50 bytes on, (n - 3) / 47 between
Specificity(t, value) ==
    IF t # "name" THEN 0
    ELSE IF Len(value) <= 3 THEN 0
    ELSE IF Len(value) >= 50 THEN 47
    ELSE Len(value) - 3

\* PropertyType.NodeID: the id and ok
NodeID(t, value) ==
    IF t = "entity" THEN [id |-> value, ok |-> value # <<>>]
    ELSE [id |-> Bytes[t] \o <<":">> \o value, ok |-> TRUE]

\* NewNode; born tells the objects apart: the number of the Add call that
\* allocated the node
NewNode(t, value, proxy, schema, born) ==
    LET n == NodeID(t, value) IN
    [Type |-> t, Value |-> value, ID |-> IF n.ok THEN n.id ELSE <<>>, Proxy |-> proxy,
     Schema |-> IF proxy # Nil THEN proxy.Schema ELSE schema, born |-> born]

\* newEdge; the weight is 47 (1.0) unless a property and a value are given
newEdge(src, dst, proxy, prop, value) ==
    [ID |-> IF proxy # Nil THEN src.ID \o <<"<">> \o Bytes[proxy.ID] \o <<">">> \o dst.ID
            ELSE src.ID \o <<"<", ">">> \o dst.ID,
     SourceID |-> src.ID, TargetID |-> dst.ID,
     Weight |-> IF prop # Nil /\ value # <<>> THEN Specificity(prop.Type, value) ELSE 47,
     Prop |-> IF prop = Nil THEN "" ELSE prop.Name,
     Proxy |-> proxy,
     Schema |-> IF proxy # Nil THEN proxy.Schema ELSE ""]

\* m[k] = v for a Go map held as a function
MapSet(m, k, v) == [x \in DOMAIN m \cup {k} |-> IF x = k THEN v ELSE m[x]]

NoMap == [x \in {} |-> Nil]

\* NewGraph: a nil slice gives name, url and country; only matchable types
\* are kept
NewGraph(isNil, edgeTypes) ==
    [edgeTypes |-> {t \in (IF isNil THEN {"name", "url", "country"} ELSE edgeTypes) :
                        Matchable(t)},
     edges |-> NoMap, nodes |-> NoMap, proxies |-> NoMap, calls |-> 0]

\* Graph.Flush
GraphFlush(g) == [g EXCEPT !.edges = NoMap, !.nodes = NoMap, !.proxies = NoMap]

\* Graph.Queue
Queue(g, id, p) ==
    IF id \notin DOMAIN g.proxies \/ p # Nil THEN [g EXCEPT !.proxies = MapSet(@, id, p)]
    ELSE g

\* getNodeStub that registers its node over the one already there
getNodeStub_Replaces(g, prop, value) ==
    LET g1 == IF prop.Type = "entity" THEN Queue(g, value, Nil) ELSE g
        n  == NewNode(prop.Type, value, Nil, prop.Range, g.calls)
    IN  IF n.ID = <<>> THEN [g |-> g1, node |-> n]
        ELSE [g |-> [g1 EXCEPT !.nodes = MapSet(@, n.ID, n)], node |-> n]

\* Graph.getNodeStub: the graph afterwards and the node returned
getNodeStub(g, prop, value) ==
    LET g1 == IF prop.Type = "entity" THEN Queue(g, value, Nil) ELSE g
        n  == NewNode(prop.Type, value, Nil, prop.Range, g.calls)
    IN  IF n.ID = <<>> THEN [g |-> g1, node |-> n]
        ELSE IF n.ID \in DOMAIN g1.nodes THEN [g |-> g1, node |-> g1.nodes[n.ID]]
        ELSE [g |-> [g1 EXCEPT !.nodes = MapSet(@, n.ID, n)], node |-> n]

\* Graph.addEdgeProxy
addEdgeProxy(g, proxy, source, target) ==
    LET ps == GraphSchemata[proxy.Schema].Properties
        sc == GraphSchemata[proxy.Schema]
    IN  IF sc.EdgeSource \notin DOMAIN ps \/ sc.EdgeTarget \notin DOMAIN ps THEN g
        ELSE LET s == getNodeStub(g, ps[sc.EdgeSource], source)
                 d == getNodeStub(s.g, ps[sc.EdgeTarget], target)
             IN  IF s.node.ID = <<>> \/ d.node.ID = <<>> THEN d.g
                 ELSE LET e == newEdge(s.node, d.node, proxy, Nil, <<>>)
                      IN  [d.g EXCEPT !.edges = MapSet(@, e.ID, e)]

\* the loop of addNode over the values of one property
RECURSIVE addValues(_, _, _, _, _)
addValues(g, entNode, p, vals, i) ==
    IF i > Len(vals) THEN g
    ELSE LET r == getNodeStub(g, p, vals[i]) IN
         IF r.node.ID = <<>> THEN addValues(r.g, entNode, p, vals, i + 1)
         ELSE LET e == newEdge(entNode, r.node, Nil, p, vals[i]) IN
              addValues(IF e.Weight > 0 THEN [r.g EXCEPT !.edges = MapSet(@, e.ID, e)] ELSE r.g,
                        entNode, p, vals, i + 1)

\* the loop of addNode over proxy.props; the properties touch different node
\* and edge IDs, so the order of the map range makes no difference
RECURSIVE addProps(_, _, _, _)
addProps(g, entNode, proxy, names) ==
    IF names = {} THEN g
    ELSE LET name == CHOOSE n \in names : TRUE
             ps   == GraphSchemata[proxy.Schema].Properties
             g1   == IF name \notin DOMAIN ps THEN g
                     ELSE IF ps[name].Type \notin g.edgeTypes THEN g
                     ELSE addValues(g, entNode, ps[name], proxy.props[name], 1)
         IN  addProps(g1, entNode, proxy, names \ {name})

\* Graph.addNode; NodeFromProxy makes the entity node
addNode(g, proxy) ==
    LET entNode == NewNode("entity", Bytes[proxy.ID], proxy, "", g.calls) IN
    IF proxy.ID = "" \/ entNode.ID = <<>> THEN g
    ELSE addProps([g EXCEPT !.nodes = MapSet(@, entNode.ID, entNode)],
                  entNode, proxy, DOMAIN proxy.props)

\* the loop of Add over proxy.EdgePairs()
RECURSIVE addPairs(_, _, _, _)
addPairs(g, proxy, pairs, i) ==
    IF i > Len(pairs) THEN g
    ELSE addPairs(addEdgeProxy(g, proxy, pairs[i][1], pairs[i][2]), proxy, pairs, i + 1)

\* EntityProxy.EdgePairs: every source with every target
EdgePairs(e) ==
    LET sc  == GraphSchemata[e.Schema]
        src == PropValues(e, sc.EdgeSource)
        dst == PropValues(e, sc.EdgeTarget)
    IN  IF ~sc.Edge THEN <<>>
        ELSE [k \in 1..(Len(src) * Len(dst)) |->
                 <<src[((k - 1) \div Len(dst)) + 1], dst[((k - 1) % Len(dst)) + 1]>>]

\* Graph.Add; calls counts the Add calls made on the graph
GraphAdd(g, proxy) ==
    LET g0 == [g EXCEPT !.calls = @ + 1] IN
    IF proxy = Nil \/ proxy.ID = "" THEN g0
    ELSE LET g1 == Queue(g0, Bytes[proxy.ID], proxy) IN
         IF GraphSchemata[proxy.Schema].Edge
         THEN addPairs(g1, proxy, EdgePairs(proxy), 1)
         ELSE addNode(g1, proxy)

MaxAdds == 3

ValJohn == <<"J", "o", "h", "n">>

ValURL == <<"u">>

\* a proxy of the graph's schemas as Add fills it
GraphProxy(schema, id, props) ==
    [Schema |-> schema, ID |-> id, props |-> props,
     size |-> 0]

\* the proxies a caller adds to the graph
GraphProxies ==
    {GraphProxy("Person", "a", [name |-> <<ValJohn>>]),
     GraphProxy("Person", "a", [name |-> <<ValA, ValJohn>>, notes |-> <<ValB>>]),
     GraphProxy("Person", "c", [name |-> <<ValA>>, website |-> <<ValURL>>]),
     GraphProxy("Person", "", [name |-> <<ValJohn>>]),
     GraphProxy("Ownership", "o", [owner |-> <<Bytes["a"]>>, asset |-> <<Bytes["c"]>>]),
     GraphProxy("Ownership", "o", [owner |-> <<Bytes["a"]>>])}

InitGraph ==
    /\ graph \in {NewGraph(TRUE, {}), NewGraph(FALSE, {}), NewGraph(FALSE, {"name", "text"})}
    /\ model = NoModel /\ se = Nil
    /\ InitAgg /\ IdleProxy /\ IdleCodec

\* g.Add(proxy)
GAdd ==
    \E proxy \in GraphProxies :
        /\ graph.calls < MaxAdds
        /\ graph' = GraphAdd(graph, proxy)
        /\ UNCHANGED <<aggVars, proxyVars, codecVars, model, se>>

\* g.Flush()
GFlush ==
    /\ graph' = GraphFlush(graph)
    /\ UNCHANGED <<aggVars, proxyVars, codecVars, model, se>>

NextGraph == GAdd \/ GFlush

SpecGraph == InitGraph /\ [][NextGraph]_vars

-----------------------------------------------------------------------------
(* URLType.Compare on pairs of URL texts                                   *)

\* a URL text by its parts as url.Parse finds them; Scheme "" is a text
\* without a scheme, Query holds the key/value pairs in the order written
URLText(scheme, host, path, query, fragment) ==
    [Scheme |-> scheme, Host |-> host, Path |-> path, Query |-> query, Fragment |-> fragment]

\* strings.ToLower on the hosts in use
ToLower(s) == IF s = "Example.com" THEN "example.com" ELSE s

\* strings.TrimSuffix(path, "/")
TrimSlash(path) == IF path = "/Path/" THEN "/Path" ELSE path

\* k1=v1 sorts before or with k2=v2: by key, then by value
PairLE(p, q) ==
    \/ ByteRank(p[1]) < ByteRank(q[1])
    \/ p[1] = q[1] /\ ByteRank(p[2]) <= ByteRank(q[2])

\* the query of normalizeURL: keys sorted, the values of a key sorted
SortedQuery(q) ==
    CHOOSE s \in {[i \in DOMAIN q |-> q[f[i]]] : f \in KeyOrders(DOMAIN q)} :
        \A i, j \in DOMAIN s : i < j => PairLE(s[i], s[j])

\* normalizeURL: "http://" is put before a text without a scheme, the host
\* is lower-cased, the query sorted, the fragment dropped
normalizeURL(u) ==
    [u EXCEPT !.Scheme = IF @ = "" THEN "http" ELSE @,
              !.Host = ToLower(@),
              !.Query = SortedQuery(@),
              !.Fragment = ""]

\* the pieces of URL.String()
URLString(u) == <<u.Scheme, "://", u.Host, u.Path, "?", u.Query, "#", u.Fragment>>

\* URLType.Compare, in 47ths as Specificity
URLCompare(left, right) ==
    LET l == normalizeURL(left)
        r == normalizeURL(right)
    IN  IF /\ l.Scheme = r.Scheme /\ l.Host = r.Host
           /\ TrimSlash(l.Path) = TrimSlash(r.Path) /\ l.Query = r.Query
        THEN Specificity("url", URLString(l))
        ELSE 0

URLTexts ==
    {URLText(sc, h, p, q, f) :
        sc \in {"", "http", "https"}, h \in {"Example.com", "example.com"},
        p \in {"/Path", "/Path/", "/Other"},
        q \in {<<<<"b", "2">>, <<"a", "1">>>>, <<<<"a", "1">>, <<"b", "2">>>>, <<<<"a", "2">>>>},
        f \in {"", "frag"}}

InitURL ==
    /\ last \in {[op |-> "urls", left |-> l, right |-> r] : l, r \in URLTexts}
    /\ ent = Nil
    /\ InitAgg /\ IdleCodec /\ IdleModel

\* t.Compare(left, right)
CompareURLs ==
    /\ last.op = "urls"
    /\ last' = [op |-> "Compare", left |-> last.left, right |-> last.right,
                out |-> URLCompare(last.left, last.right)]
    /\ UNCHANGED <<ent, aggVars, codecVars, modelVars>>

NextURL == CompareURLs

SpecURL == InitURL /\ [][NextURL]_vars

-----------------------------------------------------------------------------
(* Slot runs: a caller calls Add and Flush on one StatementAggregator in   *)
(* any order, Flush any number of times.                                   *)

\* two groups, a known schema and an unknown one
SlotUniverse ==
    AggStatements({<<"a", "">>, <<"b", "">>}, {"Person", "Nope"}, {<<"name", ValA>>})

InitSlot ==
    /\ InitAgg /\ ent = Nil /\ last = NoCall
    /\ IdleCodec /\ IdleModel

\* r := agg.Add(s)
SlotAdd ==
    \E s \in SlotUniverse :
        /\ Len(hist) < MaxInput
        /\ LET r == SaAdd([heap |-> heap, cur |-> cur, key |-> key], s) IN
            /\ heap' = r.heap
            /\ cur' = r.cur
            /\ key' = r.key
            /\ out' = IF r.ret # 0 THEN Append(out, r.ret) ELSE out
            /\ last' = [op |-> "Add", s |-> s, ret |-> r.ret,
                        before |-> [cur |-> cur, key |-> key]]
        /\ hist' = Append(hist, s)
        /\ UNCHANGED <<flushed, batchOut, ent, codecVars, modelVars>>

\* r := agg.Flush()
SlotFlush ==
    /\ LET r == SaFlush([heap |-> heap, cur |-> cur, key |-> key]) IN
        /\ heap' = r.heap
        /\ cur' = r.cur
        /\ key' = r.key
        /\ out' = IF r.ret # 0 THEN Append(out, r.ret) ELSE out
        /\ last' = [op |-> "Flush", ret |-> r.ret,
                    before |-> [cur |-> cur, key |-> key]]
    /\ UNCHANGED <<hist, flushed, batchOut, ent, codecVars, modelVars>>

NextSlot == SlotAdd \/ SlotFlush

SpecSlot == InitSlot /\ [][NextSlot]_vars

-----------------------------------------------------------------------------
(* Key runs: a caller keys two statements whose fields may hold the bytes  *)
(* MakeStatementKey joins them with.                                       *)

ValAExt == <<"A", ".", "e", "x", "t">>

KeyStatements ==
    {[Statement(eid, "", "name", "Person", v, ds) EXCEPT !.External = x] :
        ds \in {"ds", "ds.a"}, eid \in {"a", "b", "a.b"},
        v \in {ValA, ValAExt}, x \in BOOLEAN}

InitKey ==
    /\ stmts \in [1..2 -> KeyStatements]
    /\ wire = NoWire /\ back = <<>>
    /\ InitAgg /\ IdleProxy /\ IdleModel

\* stmts[i].MakeKey() on a statement that has no ID yet
KeyStatement ==
    \E i \in DOMAIN stmts :
        /\ stmts[i].ID = <<>>
        /\ stmts' = [stmts EXCEPT ![i] = MakeKey(stmts[i])]
        /\ UNCHANGED <<aggVars, proxyVars, wire, back, modelVars>>

NextKey == KeyStatement

SpecKey == InitKey /\ [][NextKey]_vars

-----------------------------------------------------------------------------
(* Codec runs: a caller keys some statements of a list, writes the list    *)
(* with one codec and reads it back.                                       *)

MaxStmts == 2       \* the longest statement list written

\* older records ("Person": nothing but the required fields) and records as
\* newer writers leave them ("Thing": canonical ID, time stamp, type name)
RecordStyles ==
    {[schema |-> "Person", canon |-> "", first |-> "", typed |-> FALSE],
     [schema |-> "Thing", canon |-> "X", first |-> "2024", typed |-> TRUE]}

CodecStatements ==
    {[Statement(eid, r.canon, pe[1], r.schema,
                IF pe[1] = BaseID THEN TrimSpace(Bytes[eid]) ELSE ValA, "ds")
         EXCEPT !.External = pe[2], !.FirstSeen = r.first,
                !.PropType = IF r.typed THEN PropTypeName(r.schema, pe[1]).name ELSE ""] :
        eid \in {"a", " a"},
        pe \in {<<BaseID, FALSE>>, <<"name", FALSE>>, <<"name", TRUE>>},
        r \in RecordStyles}

InitCodec ==
    /\ stmts \in UNION {[1..n -> CodecStatements] : n \in 1..MaxStmts}
    /\ wire = NoWire /\ back = <<>>
    /\ InitAgg /\ IdleProxy /\ IdleModel

Unwritten == wire = NoWire

\* stmts[i].MakeKey()
Rekey ==
    \E i \in DOMAIN stmts :
        /\ Unwritten
        /\ stmts' = [stmts EXCEPT ![i] = MakeKey(stmts[i])]
        /\ UNCHANGED <<aggVars, proxyVars, wire, back, modelVars>>

Written(codec, w) ==
    /\ stmts' = w.st
    /\ wire' = [codec |-> codec, recs |-> w.recs, given |-> stmts]
    /\ UNCHANGED <<aggVars, proxyVars, back, modelVars>>

WriteJSONL == Unwritten /\ Written("jsonl", WriteStatementsJSONL(stmts))

WriteCSV == Unwritten /\ Written("csv", WriteStatementsCSV(stmts))

WriteMsgpack == Unwritten /\ Written("msgpack", WriteStatementsMsgpack(stmts))

\* fn appends every statement it is called with to back
Delivered(codec, sts) ==
    /\ wire.codec = codec
    /\ back = <<>>
    /\ back' = sts
    /\ UNCHANGED <<aggVars, proxyVars, stmts, wire, modelVars>>

ReadJSONL == Delivered("jsonl", ReadStatementsJSONL(wire.recs))

ReadCSV == Delivered("csv", ReadStatementsCSV(wire.recs))

ReadMsgpack == Delivered("msgpack", ReadStatementsMsgpack(wire.recs))

NextCodec ==
    \/ Rekey
    \/ WriteJSONL \/ WriteCSV \/ WriteMsgpack
    \/ ReadJSONL \/ ReadCSV \/ ReadMsgpack

SpecCodec == InitCodec /\ [][NextCodec]_vars

-----------------------------------------------------------------------------
(* What a run is expected to return                                        *)

Last(xs) == xs[Len(xs)]

\* the statements come ordered by group key
Ordered(st) == \A i \in 1..(Len(st) - 1) : ~LessKey(GroupKey(st[i + 1]), GroupKey(st[i]))

AllKnown(st) == \A i \in DOMAIN st : st[i].Schema \in SchemaNames

\* the distinct group keys, in the order they first appear
RECURSIVE KeysInOrder(_)
KeysInOrder(st) ==
    IF st = <<>> THEN <<>>
    ELSE LET r == KeysInOrder(SubSeq(st, 1, Len(st) - 1))
             k == GroupKey(Last(st))
         IN  IF k \in SeqToSet(r) THEN r ELSE Append(r, k)

\* the distinct group keys, ascending
RECURSIVE AscendingKeys(_)
AscendingKeys(ks) ==
    IF ks = {} THEN <<>>
    ELSE LET k == CHOOSE x \in ks : \A y \in ks : ~LessKey(y, x)
         IN  <<k>> \o AscendingKeys(ks \ {k})

GroupKeys(st) == {GroupKey(st[i]) : i \in DOMAIN st}

\* the statements of one group, in input order
Group(st, k) == SelectSeq(st, LAMBDA s : GroupKey(s) = k)

RECURSIVE FoldAdd(_, _, _)
FoldAdd(e, g, i) ==
    IF i > Len(g) THEN e
    ELSE FoldAdd(IF g[i].Prop = BaseID THEN e ELSE Add(e, g[i].Prop, <<g[i].Value>>).e,
                 g, i + 1)

\* a proxy named by the key, of the schema of the group's first statement,
\* that was given every non-base statement of the group through Add
GroupEntity(st, k) ==
    LET g == Group(st, k) IN FoldAdd(NewEntityProxy(g[1].Schema, k), g, 1)

GroupEntities(st, ks) == [i \in 1..Len(ks) |-> GroupEntity(st, ks[i])]

StreamOut == Deref(heap, out)

\* the raw values the group's statements give for a property
StatedValues(st, k, p) ==
    {s.Value : s \in {x \in SeqToSet(Group(st, k)) : x.Prop = p /\ x.Prop # BaseID}}

StatedProps(st, k) == {s.Prop : s \in SeqToSet(Group(st, k))} \ {BaseID}

-----------------------------------------------------------------------------
(* C1 *)

\* C1 as stated: an ordered stream of known schemas, flushed at the end,
\* returns one proxy per distinct group key, in input order, with ID = key,
\* holding exactly the values of the group's non-base statements.
C1_AsStated ==
    flushed =>
        LET ks == KeysInOrder(hist) IN
        /\ Len(out) = Len(ks)
        /\ \A i \in 1..Len(ks) :
              /\ StreamOut[i].ID = ks[i]
              /\ \A p \in StatedProps(hist, ks[i]) \cup DOMAIN StreamOut[i].props :
                    SeqToSet(PropValues(StreamOut[i], p)) = StatedValues(hist, ks[i], p)

\* C1 (amended): an ordered stream of known schemas, flushed at the end,
\* returns one proxy per distinct group key, in input order, with ID = key,
\* holding what EntityProxy.Add keeps of the group's non-base statements
\* (cleaned values, each once, in arrival order).
C1_StreamGroups ==
    flushed => StreamOut = GroupEntities(hist, KeysInOrder(hist))

\* the spec's scenario: a:id, a:name=A, b:id, b:name=B, then Flush
C1_Witness ==
    /\ flushed
    /\ Len(hist) = 4
    /\ [i \in 1..4 |-> <<GroupKey(hist[i]), hist[i].Prop, hist[i].Value>>]
         = << <<"a", BaseID, <<"a">> >>, <<"a", "name", ValA>>,
              <<"b", BaseID, <<"b">> >>, <<"b", "name", ValB>> >>
    /\ Len(out) = 2
    /\ StreamOut[1].ID = "a" /\ StreamOut[1].props = [name |-> <<ValA>>]
    /\ StreamOut[2].ID = "b" /\ StreamOut[2].props = [name |-> <<ValB>>]

-----------------------------------------------------------------------------
(* C3 *)

\* C3: batch aggregation of statements of known schemas returns, per group
\* key (canonical_id before entity_id), one proxy with ID = key, made with
\* the Schema of the group's first statement and given every non-base
\* statement of the group through Add; "id" is never a property of it.
C3_BatchGroups ==
    (batchOut.ran /\ AllKnown(hist)) =>
        /\ batchOut.ents = GroupEntities(hist, AscendingKeys(GroupKeys(hist)))
        /\ \A i \in DOMAIN batchOut.ents : BaseID \notin DOMAIN batchOut.ents[i].props

\* a base statement of entity a and a fact of entity b, both canonical X,
\* became the one entity X, of the schema of the first of them
C3_Witness ==
    /\ batchOut.ran
    /\ Len(hist) = 2
    /\ hist[1].EntityID = "a" /\ hist[1].CanonicalID = "X" /\ hist[1].Prop = BaseID
    /\ hist[1].Schema = "Thing"
    /\ hist[2].EntityID = "b" /\ hist[2].CanonicalID = "X" /\ hist[2].Prop = "name"
    /\ hist[2].Schema = "Person"
    /\ batchOut.ents = <<[Schema |-> "Thing", ID |-> "X", props |-> [name |-> <<ValA>>],
                          size |-> 1]>>

-----------------------------------------------------------------------------
(* C4 *)

\* C4: on a stream ordered by group key, the list AggregateSortedStatements
\* returns equals the non-nil results of Add, in call order, followed by the
\* result of Flush.
C4_BatchEqualsStream ==
    (batchOut.ran /\ Ordered(hist)) => batchOut.ents = StreamOut

\* three ordered statements, two groups, two distinct values in one of them
C4_Witness ==
    /\ batchOut.ran
    /\ Len(hist) = 3
    /\ Len(out) = 2
    /\ \E i \in DOMAIN batchOut.ents : PropValues(batchOut.ents[i], "name") = <<ValA, ValB>>

-----------------------------------------------------------------------------
(* C5 *)

\* C5: whatever the order of the input, when its schemas are all known the
\* batch output has exactly one entity per distinct group key, in ascending
\* key order.
C5_BatchSortsInput ==
    (batchOut.ran /\ AllKnown(hist)) =>
        [i \in 1..Len(batchOut.ents) |-> batchOut.ents[i].ID]
            = AscendingKeys(GroupKeys(hist))

\* an input that interleaves two groups out of order
C5_Witness ==
    /\ batchOut.ran
    /\ AllKnown(hist)
    /\ Len(hist) = 3
    /\ GroupKey(hist[1]) = "a" /\ GroupKey(hist[2]) = "X" /\ GroupKey(hist[3]) = "a"
    /\ Len(batchOut.ents) = 2

-----------------------------------------------------------------------------
(* C6 *)

RECURSIVE StreamLoop(_, _, _, _)
StreamLoop(sa, outs, st, i) ==
    IF i > Len(st)
    THEN LET r == SaFlush(sa) IN
         [heap |-> r.heap, out |-> IF r.ret # 0 THEN Append(outs, r.ret) ELSE outs]
    ELSE LET r == SaAdd(sa, st[i]) IN
         StreamLoop([heap |-> r.heap, cur |-> r.cur, key |-> r.key],
                    IF r.ret # 0 THEN Append(outs, r.ret) ELSE outs, st, i + 1)

\* the results of feeding st to a new aggregator and flushing it
StreamEnts(st) ==
    LET r == StreamLoop([heap |-> <<>>, cur |-> 0, key |-> ""], <<>>, st, 1)
    IN  Deref(r.heap, r.out)

KnownOnly(st) == SelectSeq(st, LAMBDA s : s.Schema \in SchemaNames)

NoDuplicates(xs) == \A i, j \in DOMAIN xs : xs[i] = xs[j] => i = j

\* C6: statements of an unknown schema are dropped: both engines return what
\* they return for the input without those statements, and no entity twice.
C6_UnknownSchemaDropped ==
    batchOut.ran =>
        /\ batchOut.ents = BatchEnts(KnownOnly(hist))
        /\ StreamOut = StreamEnts(KnownOnly(hist))
        /\ NoDuplicates(out)

-----------------------------------------------------------------------------
(* Entities and their statements                                           *)

StatementIndexes(prop, value) ==
    {i \in DOMAIN stmts : stmts[i].Prop = prop /\ stmts[i].Value = value}

\* stmts is one statement of the entity itself, one statement per value the
\* entity holds, and nothing else; every statement has an ID
OneStatementPerValue ==
    /\ Cardinality({i \in DOMAIN stmts : stmts[i].Prop = BaseID}) = 1
    /\ Cardinality(StatementIndexes(BaseID, Bytes[ent.ID])) = 1
    /\ \A n \in DOMAIN ent.props : \A j \in DOMAIN ent.props[n] :
           Cardinality(StatementIndexes(n, ent.props[n][j])) = 1
    /\ \A i \in DOMAIN stmts :
           /\ stmts[i].ID # <<>>
           /\ stmts[i].EntityID = ent.ID
           /\ stmts[i].Prop # BaseID =>
                  /\ stmts[i].Prop \in DOMAIN ent.props
                  /\ stmts[i].Value \in SeqToSet(ent.props[stmts[i].Prop])

\* C8 as stated: the statements of every entity are exactly one statement of
\* the base property whose value is the entity's ID and one statement per
\* held (property, value) pair, all with a non-empty ID.
C8_AsStated == Decomposed => OneStatementPerValue

\* C8: the statements of every entity that has an ID are exactly one
\* statement of the base property whose value is the entity's ID and one
\* statement per held (property, value) pair, all with a non-empty ID.
C8_Decomposition == (Decomposed /\ ent.ID # "") => OneStatementPerValue

C8_Witness ==
    /\ Decomposed
    /\ ent.ID = "a"
    /\ PropValues(ent, "name") = <<ValA, ValB>>
    /\ PropValues(ent, "notes") = <<ValQA>>
    /\ Len(stmts) = 4

\* C2: the statements of an entity with an ID aggregate to exactly one
\* entity, with the same ID, the same schema and the same set of values for
\* every property.
C2_RoundTrip ==
    (batchOut.ran /\ Decomposed /\ ent.ID # "") =>
        /\ Len(batchOut.ents) = 1
        /\ batchOut.ents[1].ID = ent.ID
        /\ batchOut.ents[1].Schema = ent.Schema
        /\ \A n \in DOMAIN Schemata[ent.Schema] :
               SeqToSet(PropValues(batchOut.ents[1], n)) = SeqToSet(PropValues(ent, n))

NoStubValues ==
    \A n \in DOMAIN ent.props :
        LET p == SchemaGet(ent.Schema, n) IN (p # Nil /\ p.Stub) => ent.props[n] = <<>>

AddRefused ==
    (/\ last'.op = "Add"
     /\ LET p == SchemaGet(ent.Schema, last'.name) IN p = Nil \/ p.Stub)
    => /\ last'.err # ""
       /\ ent'.ID = ent.ID
       /\ ent'.Schema = ent.Schema
       /\ ent'.props = ent.props

\* C10: Add on a property the schema does not have, or on a stub property,
\* returns an error and leaves the ID, the schema and every value list as
\* they were; no sequence of Add, Set and UnsafeAdd leaves a value under a
\* stub property.
C10_StubsNotWritable == [][AddRefused]_vars /\ []NoStubValues

C10_Witness ==
    /\ last = Call("Add", "ownershipOwner", "stub property cannot be written")
    /\ ent.Schema = "Person"
    /\ PropValues(ent, "name") = <<ValA>>

-----------------------------------------------------------------------------
(* Statement IDs and codecs                                                *)

SameKeyFields(s, u) ==
    /\ s.Dataset = u.Dataset /\ s.EntityID = u.EntityID /\ s.Prop = u.Prop
    /\ s.Value = u.Value /\ s.External = u.External

\* statements that MakeKey has keyed and that agree on the five key fields
\* have the same ID
KeyedAlike ==
    Unwritten =>
        \A i, j \in DOMAIN stmts :
            (SameKeyFields(stmts[i], stmts[j]) /\ stmts[i].ID # <<>> /\ stmts[j].ID # <<>>)
                => stmts[i].ID = stmts[j].ID

\* MakeKey on a statement that has an ID leaves that ID
KeyStays ==
    (Unwritten /\ wire' = NoWire) =>
        \A i \in DOMAIN stmts : stmts[i].ID # <<>> => stmts'[i].ID = stmts[i].ID

\* C7: the ID MakeKey gives a statement is a function of its dataset,
\* entity_id, prop, value and external alone: two statements that agree on
\* these get the same ID whatever their other fields, and another MakeKey on
\* a statement gives the ID it has.
C7_KeyOfFiveFields == []KeyedAlike /\ [][KeyStays]_vars

C7_Witness ==
    /\ Unwritten
    /\ Len(stmts) = 2
    /\ SameKeyFields(stmts[1], stmts[2])
    /\ stmts[1].Schema # stmts[2].Schema
    /\ stmts[1].CanonicalID # stmts[2].CanonicalID
    /\ stmts[1].FirstSeen # stmts[2].FirstSeen
    /\ stmts[1].ID # <<>>
    /\ stmts[1].ID = stmts[2].ID

\* the statement read back for the statement g that was written
Normalized(g, b) ==
    /\ b.Prop = g.Prop /\ b.Value = g.Value /\ b.Schema = g.Schema
    /\ b.Dataset = g.Dataset /\ b.External = g.External
    /\ b.EntityID = Atom(TrimSpace(Bytes[g.EntityID]))
    /\ b.CanonicalID = ifEmpty(g.CanonicalID, b.EntityID)
    /\ b.LastSeen = ifEmpty(g.LastSeen, g.FirstSeen)
    /\ b.ID # <<>>
    /\ b.PropType # ""

\* C9: a statement list written with a codec and read back arrives with the
\* same number of statements in the same order, every one normalized:
\* canonical_id defaulted to entity_id, last_seen defaulted to first_seen, a
\* non-empty id and a non-empty prop_type.
C9_CodecRoundTrip ==
    back # <<>> =>
        /\ Len(back) = Len(wire.given)
        /\ \A i \in DOMAIN back : Normalized(wire.given[i], back[i])

-----------------------------------------------------------------------------
(* The values an EntityProxy holds                                         *)

\* C11: no value list of the proxy holds a value twice, and none holds the
\* empty string, whatever Add, Set, UnsafeAdd, Remove, Pop and Merge calls
\* were made.
C11_DistinctNonEmpty ==
    \A n \in DOMAIN ent.props :
        /\ \A i, j \in DOMAIN ent.props[n] : ent.props[n][i] = ent.props[n][j] => i = j
        /\ \A i \in DOMAIN ent.props[n] : ent.props[n][i] # <<>>

C11_Witness ==
    /\ last = Call("Merge", "", "")
    /\ ent.Schema = "Person"
    /\ PropValues(ent, "name") = <<ValA, ValB>>
    /\ PropValues(ent, "notes") = <<ValQA>>

\* what Set(name, values) leaves of the proxy e: under name what Add accepts
\* on a proxy that holds nothing, every other property as it was
SetReplaces(e, after, name, values) ==
    LET empty == Add([e EXCEPT !.props = EmptyProps], name, values).e IN
    /\ after.ID = e.ID /\ after.Schema = e.Schema
    /\ DOMAIN after.props = DOMAIN e.props \cup {name}
    /\ after.props[name] = empty.props[name]
    /\ \A n \in DOMAIN e.props \ {name} : after.props[n] = e.props[n]

\* C12: a Set(p, values) that returns no error leaves under p exactly the
\* values Add(p, values) accepts on a proxy holding nothing, in arrival
\* order, whatever p held before, and leaves every other property as it was.
C12_SetReplaces ==
    (last.op = "Set" /\ last.err = "") => SetReplaces(last.before, ent, last.name, last.values)

C12_Witness ==
    /\ last.op = "Set" /\ last.err = "" /\ last.name = "name"
    /\ last.values = <<ValB, ValTQA, ValB>> \/ last.values = <<ValB, ValTQA>>
    /\ PropValues(last.before, "name") = <<ValA, ValB>>
    /\ PropValues(last.before, "notes") = <<ValB, ValQA>>
    /\ PropValues(ent, "name") = <<ValB, ValQA>>
    /\ PropValues(ent, "notes") = <<ValB, ValQA>>

RECURSIVE SumLen(_)
SumLen(xs) == IF xs = <<>> THEN 0 ELSE Len(Head(xs)) + SumLen(Tail(xs))

RECURSIVE SumOver(_, _)
SumOver(e, names) ==
    IF names = {} THEN 0
    ELSE LET n == CHOOSE x \in names : TRUE IN SumLen(e.props[n]) + SumOver(e, names \ {n})

\* the bytes the proxy holds in values of type t
TypeBytes(e, t) ==
    SumOver(e, {n \in DOMAIN e.props : SchemaGet(e.Schema, n).Type = t})

\* the loop of Add with the cap applied to the bytes held of the property's type
RECURSIVE AddLoopByType(_, _, _, _)
AddLoopByType(e, p, values, i) ==
    IF i > Len(values) THEN e
    ELSE LET c   == Clean(p.Type, values[i])
             max == TotalSize(p.Type)
         IN  IF ~c.ok \/ c.out = <<>> THEN AddLoopByType(e, p, values, i + 1)
             ELSE IF max > 0 /\ TypeBytes(e, p.Type) + Len(c.out) > max
                  THEN AddLoopByType(e, p, values, i + 1)
             ELSE IF c.out \in SeqToSet(PropValues(e, p.Name)) THEN AddLoopByType(e, p, values, i + 1)
             ELSE AddLoopByType(SetProp(e, p.Name, Append(PropValues(e, p.Name), c.out)),
                                p, values, i + 1)

\* C13: an Add to a property whose type has a total-size cap drops a cleaned
\* value exactly when the bytes held in values of that type plus the value's
\* length pass the cap; values of other types, and values no longer held, do
\* not count. Refuted: the cap is compared with the proxy's one size counter,
\* which every accepted value of every type raises and nothing lowers.
C13_CapCountsTypeBytes ==
    (last.op = "Add" /\ last.err = "" /\ TotalSize(SchemaGet(ent.Schema, last.name).Type) > 0)
        => LET p  == SchemaGet(ent.Schema, last.name)
               e0 == SetProp(last.before, last.name, PropValues(last.before, last.name))
           IN  ent.props = AddLoopByType(e0, p, last.values, 1).props

\* C14: no value a proxy holds is longer than the per-value maximum length of
\* its property's type. Refuted: Add never consults MaxLength.
C14_NoValueOverMaxLength ==
    \A n \in DOMAIN ent.props :
        LET max == MaxLength(SchemaGet(ent.Schema, n).Type) IN
        max > 0 => \A i \in DOMAIN ent.props[n] : Len(ent.props[n][i]) <= max

\* the values of other's list xs that e does not hold under name n
NewValues(e, n, xs) ==
    SelectSeq(xs, LAMBDA v : v \notin SeqToSet(PropValues(e, n)))

\* what the claim has a successful e.Merge(other) leave
Merged(e, after, other) ==
    /\ after.ID = (IF e.ID # "" THEN e.ID ELSE other.ID)
    /\ after.Schema = CommonSchema(SchemaRef(e.Schema), SchemaRef(other.Schema)).schema.Name
    /\ DOMAIN after.props = DOMAIN e.props \cup DOMAIN other.props
    /\ \A n \in DOMAIN after.props :
           after.props[n] = PropValues(e, n) \o NewValues(e, n, PropValues(other, n))

\* C15: after e.Merge(other) returns no error, e.ID is the previous ID if it
\* was not empty and other's ID otherwise, e.Schema is the common schema, and
\* every value list is the previous list followed by those of other's values
\* that e did not hold. Refuted: other's values pass through Add again.
C15_MergeKeepsValues ==
    (last.op = "Merge" /\ last.err = "") => Merged(last.before, ent, last.other)

\* the model NewModel returned
Generated == model.phase = "done"

Extending(p, q) == \E i \in DOMAIN model.defs[p].Extends : model.defs[p].Extends[i] = q

\* C17: after Model.Generate, for all schemas A extends B extends C, A.IsA(C)
\* holds and A.Get returns every property declared on C unless A or B
\* declares a property of the same name. Refuted: A.Get returns another
\* property of that name when a reverse stub took the name first or when
\* another parent of A brought one in.
C17_InheritedVisible ==
    Generated =>
        \A a, b, c \in DOMAIN model.defs :
            (Extending(a, b) /\ Extending(b, c)) =>
                /\ IsA(model.Schemata[a], c)
                /\ \A pn \in DOMAIN model.defs[c].Properties :
                       (pn \notin DOMAIN model.defs[a].Properties
                            /\ pn \notin DOMAIN model.defs[b].Properties)
                           => SchemaGetQ(model, a, pn) = QName(c, pn)

\* the ancestry half of C17 holds in every generated model
C17_Ancestry ==
    Generated =>
        \A a, b, c \in DOMAIN model.defs :
            (Extending(a, b) /\ Extending(b, c)) => IsA(model.Schemata[a], c)

\* the entity properties that declare a reverse and a range
ReverseDeclared ==
    {q \in DeclaredQNames(model.defs) :
        LET ps == model.defs[q[1]].Properties[q[2]] IN
        ps.Type = "entity" /\ ps.Range # "" /\ ps.Reverse # ""}

\* C18: after Model.Generate, for every entity property that declares a
\* reverse and a range, the range schema has a property under the reverse
\* name, the forward property's Reverse points to it, it is a Stub, and
\* EntityProxy.Add on it fails. Refuted: a range name that is no schema leaves
\* the property without a reverse, and a range schema that already has a
\* property of the reverse name gives that writable property as the reverse.
C18_ReverseStubs ==
    Generated =>
        \A q \in ReverseDeclared :
            LET ps  == model.defs[q[1]].Properties[q[2]]
                rev == model.props[q].Reverse
            IN  /\ ps.Range \in DOMAIN model.Schemata
                /\ SchemaGetQ(model, ps.Range, ps.Reverse) # NoQName
                /\ rev = SchemaGetQ(model, ps.Range, ps.Reverse)
                /\ model.props[rev].Stub
                /\ AddErr(model, ps.Range, ps.Reverse) = "stub property cannot be written"

\* the same with the range resolved and the reverse name free on the range
C18_FreeName ==
    Generated =>
        \A q \in ReverseDeclared :
            LET ps  == model.defs[q[1]].Properties[q[2]]
                rev == model.props[q].Reverse
            IN  (ps.Range \in DOMAIN model.Schemata /\ ps.Reverse # "name") =>
                /\ rev = SchemaGetQ(model, ps.Range, ps.Reverse)
                /\ rev # NoQName /\ model.props[rev].Stub
                /\ AddErr(model, ps.Range, ps.Reverse) = "stub property cannot be written"

\* the parent names and range names of the definitions that are no schema
UnknownParents(defs) ==
    {s \in DOMAIN defs : \E i \in DOMAIN defs[s].Extends : defs[s].Extends[i] \notin DOMAIN defs}

UnknownRanges(defs) ==
    {q \in DeclaredQNames(defs) :
        LET ps == defs[q[1]].Properties[q[2]] IN ps.Range # "" /\ ps.Range \notin DOMAIN defs}

\* C19: building a Model fails, and returns no Model, whenever a schema names
\* a parent or a property names a range that is no schema of the Model; no
\* property is kept with an unresolved range. Refuted for the range: the
\* Model is returned with the property's Range nil.
C19_UnknownNamesFail ==
    /\ (UnknownParents(model.defs) # {} \/ UnknownRanges(model.defs) # {}) => ~Generated
    /\ Generated =>
           \A q \in DeclaredQNames(model.defs) :
               model.defs[q[1]].Properties[q[2]].Range # "" => model.props[q].Range # ""

\* the parent half of C19: an unknown parent name fails loadAll
C19_UnknownParentFails ==
    /\ UnknownParents(model.defs) # {} => model.phase \in {"defs", "failed"}
    /\ model.phase = "failed" => UnknownParents(model.defs) # {} /\ model.err = "invalid extends"

\* the statements the entity holds
HeldStatements ==
    UNION {{se.stmts[p][id] : id \in DOMAIN se.stmts[p]} : p \in DOMAIN se.stmts}

\* what an AddStatement(s) call does to the schema of the entity b it found
SchemaAdapted(b, s, err) ==
    LET cs == CommonSchema(SchemaRef(b.Schema), SchemaRef(s.Schema)) IN
    s.Schema # b.Schema =>
        IF cs.err = "" THEN err = "" /\ se.Schema = cs.schema.Name
        ELSE err # "" /\ se = b

\* C20: AddStatement with a statement whose Schema differs from the entity's
\* sets the entity's Schema to the CommonSchema of the two; when the two are
\* not comparable it returns an error and stores nothing; and the entity's
\* Schema is-a the schema of every statement the entity holds.
C20_SchemaCoversStatements ==
    /\ \A s \in HeldStatements : IsA(SchemaRef(se.Schema), s.Schema)
    /\ last.op = "AddStatement" => SchemaAdapted(last.before, last.s, last.err)

C20_Witness ==
    /\ last.op = "AddStatement" /\ last.err = ""
    /\ last.before.Schema = "Thing" /\ last.s.Schema = "Person" /\ last.s.Prop = "name"
    /\ se.Schema = "Person"
    /\ {s.Schema : s \in HeldStatements} = {"Thing", "Person"}

\* the earliest first_seen and the latest last_seen among the held
\* statements that carry one, "" when none does
EarliestFirstSeen ==
    LET ts == {s.FirstSeen : s \in HeldStatements} \ {""} IN
    IF ts = {} THEN "" ELSE CHOOSE t \in ts : \A u \in ts : SeenRank[t] <= SeenRank[u]

LatestLastSeen ==
    LET ts == {s.LastSeen : s \in HeldStatements} \ {""} IN
    IF ts = {} THEN "" ELSE CHOOSE t \in ts : \A u \in ts : SeenRank[t] >= SeenRank[u]

\* the positions of the BaseID statements in what Statements returned
BasePositions == {i \in DOMAIN last.out : last.out[i].Prop = BaseID}

\* every held statement is returned, once
HeldReturned ==
    /\ {last.out[i] : i \in DOMAIN last.out \ BasePositions} = HeldStatements
    /\ Cardinality(DOMAIN last.out \ BasePositions) = Cardinality(HeldStatements)

\* the one BaseID statement, its first_seen being first
OneBase(first) ==
    /\ Cardinality(BasePositions) = 1
    /\ \A i \in BasePositions :
           /\ last.out[i].PropType = BaseID
           /\ last.out[i].Value = Bytes[se.ID]
           /\ last.out[i].FirstSeen = first
           /\ last.out[i].LastSeen = LatestLastSeen

\* Statements, as stated: always one BaseID statement, its first_seen the
\* earliest of the held statements
C21_AsStated ==
    last.op = "Statements" => HeldReturned /\ OneBase(EarliestFirstSeen)

\* C21: for an entity with a non-empty ID, Statements returns every held
\* statement plus exactly one synthesized base-identity statement (prop "id",
\* prop_type "id", value the entity ID) whose first_seen is the earliest
\* first_seen of the held statements, the entity's LastChange when no held
\* statement carries one, and whose last_seen is the latest last_seen; for an
\* entity with an empty ID it returns the held statements only.
C21_BaseStatement ==
    last.op = "Statements" =>
        /\ HeldReturned
        /\ IF se.ID = "" THEN BasePositions = {}
           ELSE OneBase(ifEmpty(EarliestFirstSeen, se.LastChange))

C21_Witness ==
    /\ last.op = "Statements" /\ se.ID = "a"
    /\ Cardinality(HeldStatements) = 2
    /\ {s.FirstSeen : s \in HeldStatements} = {"2020", "2021"}
    /\ Len(last.out) = 3
    /\ last.out[3].Prop = BaseID /\ last.out[3].FirstSeen = "2020" /\ last.out[3].LastSeen = "2021"

\* a step of Graph.Add
AddStep == graph # Nil /\ graph'.calls = graph.calls + 1

\* node objects, as stated: whatever is registered under an ID stays
C22_AsStated ==
    [][AddStep => \A id \in DOMAIN graph.nodes :
                      id \in DOMAIN graph'.nodes /\ graph'.nodes[id] = graph.nodes[id]]_vars

\* C22: until Flush, a node object registered under an ID is reused and
\* never replaced by a later Graph.Add that produces a value or stub node of
\* that ID; only the Add of a node-shaped proxy with that ID replaces it, by
\* the entity node of the proxy added.
C22_ReplacedByEntityOnly ==
    [][AddStep => \A id \in DOMAIN graph.nodes :
                      /\ id \in DOMAIN graph'.nodes
                      /\ \/ graph'.nodes[id] = graph.nodes[id]
                         \/ /\ graph'.nodes[id].Proxy # Nil
                            /\ Bytes[graph'.nodes[id].Proxy.ID] = id
                            /\ graph'.nodes[id].born = graph'.calls]_vars

C22_Witness ==
    /\ graph # Nil /\ graph.calls = 2
    /\ Bytes["name"] \o <<":">> \o ValJohn \in DOMAIN graph.nodes
    /\ graph.nodes[Bytes["name"] \o <<":">> \o ValJohn].born = 1
    /\ Bytes["a"] \in DOMAIN graph.nodes
    /\ graph.nodes[Bytes["a"]].born = 2
    /\ Cardinality(DOMAIN graph.edges) = 1

\* C23: a value node is registered for a property value of a node-shaped
\* proxy only if the property's type is in the edge-type set and the type's
\* Specificity of the value is above zero. Refuted: getNodeStub registers the
\* node before the weight is looked at.
C23_NoZeroSpecificityNodes ==
    graph # Nil =>
        \A id \in DOMAIN graph.nodes :
            graph.nodes[id].Type # "entity" =>
                /\ graph.nodes[id].Type \in graph.edgeTypes
                /\ Specificity(graph.nodes[id].Type, graph.nodes[id].Value) > 0

\* what holds of C23: an edge to a value node has a type of the edge-type
\* set and a weight above zero, and its value node is registered
C23_EdgesWeighted ==
    graph # Nil =>
        \A id \in DOMAIN graph.edges :
            LET e == graph.edges[id] IN
            e.Prop # "" =>
                /\ e.Weight > 0
                /\ e.TargetID \in DOMAIN graph.nodes
                /\ graph.nodes[e.TargetID].Type \in graph.edgeTypes
                /\ e.Weight = Specificity(graph.nodes[e.TargetID].Type,
                                          graph.nodes[e.TargetID].Value)

\* two URL texts agree on scheme (http when none is written), lower-cased
\* host, path up to a trailing slash and the sorted query
URLsAgree(l, r) ==
    /\ (IF l.Scheme = "" THEN "http" ELSE l.Scheme) = (IF r.Scheme = "" THEN "http" ELSE r.Scheme)
    /\ ToLower(l.Host) = ToLower(r.Host)
    /\ TrimSlash(l.Path) = TrimSlash(r.Path)
    /\ {l.Query[i] : i \in DOMAIN l.Query} = {r.Query[i] : i \in DOMAIN r.Query}

\* C24: URLType.Compare returns 1.0 (47 47ths) for two URLs that agree on
\* scheme, lower-cased host, path up to a trailing slash and the sorted
\* query, whatever the fragment and the order of the query, and 0 for URLs
\* that differ in one of these. Refuted: the 1.0 is multiplied by the url
\* type's Specificity, which is 0.
C24_EqualURLsCompareOne ==
    last.op = "Compare" =>
        last.out = IF URLsAgree(last.left, last.right) THEN 47 ELSE 0

\* what holds of C24: URLs that differ in one of the parts compare as 0
C24_DifferentURLsCompareZero ==
    (last.op = "Compare" /\ ~URLsAgree(last.left, last.right)) => last.out = 0

\* the slot holds nothing, or an entity whose ID is the current key
SlotHoldsKey == cur # 0 => heap[cur].ID = key

\* no entity is in the returned list twice
ReturnedOnce == \A i, j \in DOMAIN out : out[i] = out[j] => i = j

\* C25: the aggregator is a single slot: an entity in progress has the
\* current key as its ID; Add with the current key returns nil; Add with
\* another key returns the entity in progress and starts a new one under the
\* new key; Flush returns the entity in progress and empties the slot, so a
\* Flush of an empty slot returns nil; no entity is returned twice.
\* Refuted: an Add that names an unknown schema under another key returns
\* the entity in progress and leaves it in the slot.
C25_SingleSlot ==
    /\ SlotHoldsKey
    /\ ReturnedOnce
    /\ last.op = "Add" =>
          IF GroupKey(last.s) = last.before.key /\ last.before.cur # 0
          THEN last.ret = 0 /\ cur = last.before.cur
          ELSE /\ last.ret = last.before.cur
               /\ cur # 0 /\ cur # last.before.cur
               /\ key = GroupKey(last.s)
    /\ last.op = "Flush" => last.ret = last.before.cur /\ cur = 0 /\ key = ""

\* what holds of C25 whatever the schemas: the entity in the slot carries
\* the current key, Add with the current key returns nil, Flush returns the
\* entity in the slot and empties it, and a Flush of the empty slot returns nil
C25_SlotKeyAndFlush ==
    /\ SlotHoldsKey
    /\ (last.op = "Add" /\ GroupKey(last.s) = last.before.key /\ last.before.cur # 0)
          => last.ret = 0 /\ cur = last.before.cur
    /\ last.op = "Flush" => last.ret = last.before.cur /\ cur = 0 /\ key = ""

\* C26: after any sequence of Add, Set, Pop, Remove and Merge, Has(p) is
\* true exactly when the proxy holds at least one value for p.
\* Refuted: an Add whose values are all dropped leaves an empty list under
\* the name, and Has answers for the name, not for the values.
C26_HasIffValues ==
    \A name \in WriteNames : Has(ent, name) <=> PropValues(ent, name) # <<>>

\* what holds of C26: a property the proxy holds a value for is one it Has
C26_ValuesImplyHas ==
    \A name \in WriteNames : PropValues(ent, name) # <<>> => Has(ent, name)

\* the bytes of all the values the proxy holds
HeldBytes(e) == SumOver(e, DOMAIN e.props)

\* C28: the size counter of the proxy is the total byte length of the values
\* it holds, so values replaced or removed no longer count toward the cap.
\* Refuted: Set, Pop and Remove take values away and leave the counter.
C28_SizeIsHeldBytes == ent.size = HeldBytes(ent)

\* what holds of C28: the counter is never below the bytes held
C28_SizeCoversHeldBytes == ent.size >= HeldBytes(ent)

\* the last call was a Merge that returned an error
MergeFailed == last.op = "Merge" /\ last.err # ""

\* C29: an e.Merge(other) that fails because the schemas have no common
\* schema returns an error and leaves the ID, the Schema and the property
\* values of e as they were.
\* Refuted: the ID is taken from other before the schemas are compared.
C29_FailedMergeChangesNothing ==
    MergeFailed =>
        /\ ent.ID = last.before.ID
        /\ ent.Schema = last.before.Schema
        /\ ent.props = last.before.props

\* what holds of C29: a failed Merge leaves the Schema and the values
C29_FailedMergeKeepsValues ==
    MergeFailed => ent.Schema = last.before.Schema /\ ent.props = last.before.props

\* the five fields the statement ID is made of
KeyFields(s) == <<s.Dataset, s.EntityID, s.Prop, s.Value, s.External>>

BothKeyed == stmts[1].ID # <<>> /\ stmts[2].ID # <<>>

\* C30: two statements that differ in one of dataset, entity_id, prop, value
\* and external are hashed from different key strings, so they get
\* different IDs.
\* Refuted: the fields are joined with "." and the flag is the suffix
\* ".ext", bytes the fields themselves may hold.
C30_DistinctFactsDistinctKeys ==
    (BothKeyed /\ KeyFields(stmts[1]) # KeyFields(stmts[2]))
        => stmts[1].ID # stmts[2].ID

NoDot(bs) == \A i \in DOMAIN bs : bs[i] # "."

PlainFields(s) ==
    NoDot(Bytes[s.Dataset]) /\ NoDot(Bytes[s.EntityID]) /\ NoDot(Bytes[s.Prop]) /\ NoDot(s.Value)

\* what holds of C30: statements whose fields hold no "." get different IDs
\* when they differ in one of the five fields
C30_PlainFactsDistinctKeys ==
    (BothKeyed /\ PlainFields(stmts[1]) /\ PlainFields(stmts[2])
               /\ KeyFields(stmts[1]) # KeyFields(stmts[2]))
        => stmts[1].ID # stmts[2].ID

\* Model.Generate visiting the schemas order[i..] in that order
RECURSIVE GenerateInOrder(_, _, _)
GenerateInOrder(m, order, i) ==
    IF i > Len(order) THEN m
    ELSE GenerateInOrder(SchemaGenerate(m, order[i]), order, i + 1)

\* one order of the schemas of a model directory
NameOrder == <<"Thing", "LegalEntity", "Asset", "Company", "Ownership">>

\* every schema has a property under each name an ancestor has one under
AncestorNamesHeld ==
    \A s \in DOMAIN model.Schemata : \A a \in model.Schemata[s].Names :
        DOMAIN model.Schemata[a].Properties \subseteq DOMAIN model.Schemata[s].Properties

\* C27: the model Generate resolves is the same whatever the order in which
\* it visits the schemas, and every schema has every property of each of its
\* ancestors that it does not shadow, the reverse stubs put on those
\* ancestors included.
\* Refuted: a stub is put on the range schema when the forward property's
\* schema is generated; a descendant of the range generated before that has
\* copied the range's properties without it.
C27_OrderIndependent ==
    Generated =>
        /\ LET m == GenerateInOrder(loadAll(model.defs), NameOrder, 1) IN
               model.Schemata = m.Schemata /\ model.props = m.props
        /\ AncestorNamesHeld

\* what holds of C27: whatever the order, every schema has a property under
\* each name an ancestor declares
C27_DeclaredNamesHeld ==
    Generated =>
        \A s \in DOMAIN model.Schemata : \A a \in model.Schemata[s].Names :
            DOMAIN model.defs[a].Properties \subseteq DOMAIN model.Schemata[s].Properties

====
